---- MODULE Spec2Model ----
(***************************************************************************)
(* A model of agentfiles' resolve -> scan -> pick -> strategy -> place     *)
(* pipeline.  Strings are sequences of one-character strings, so that the  *)
(* prefix, suffix and search operations of the source are computed, not    *)
(* assumed.  Paths are sequences of names, names are strings.              *)
(***************************************************************************)
EXTENDS Naturals, Sequences, FiniteSets

VARIABLES
    phase,          \* which step of the modelled operation has run
    s1, s2,         \* git.rs: two source strings handed to normalize_source
    n1, n2,         \* git.rs: their normalized forms (an Option: <<>> or <<x>>)
    parsed_remote,  \* git.rs: what parse_remote returns for s1 (an Option)
    git_url,        \* git.rs: what is_git_url returns for s1 (an Option)
    remote,         \* git.rs: resolve_remote's argument, a ParsedRemote (an Option)
    git_pc,         \* git.rs: where resolve_remote stands
    git_commands,   \* git.rs: the git subprocesses run so far, with their outcome
    branch,         \* git.rs: reset_to_default_branch's `branch`
    resolve_result, \* git.rs: whether resolve_remote returned Ok
    git_checked,    \* git.rs: ensure_git_available's GIT_CHECKED (an Option)
    resolve_calls,  \* git.rs: the resolve_remote calls this process has finished
    invocations,    \* commands.rs: the installs of a remote source under way, one per process
    cache,          \* git.rs: the cache directories, each with the ref its working tree holds
    resolving,      \* commands.rs: the dependency install_dependency is resolving (an Option)
    fs,             \* the file system: a function from absolute paths to nodes
    custom_paths,   \* scanner.rs: scan_agent_files' custom_paths argument (an Option)
    scanned,        \* scanner.rs: `mappings` as collected, before deduplicate
    scan_result,    \* scanner.rs: what scan_agent_files returns (Ok(list) or Err)
    pick_files,     \* scanner.rs: filter_by_pick's `mappings` argument
    pick_list,      \* scanner.rs: filter_by_pick's `pick` argument
    picked,         \* scanner.rs: what filter_by_pick returns
    home_dir,       \* provider.rs: what dirs::home_dir() returns (an Option)
    manifest,       \* manifest.rs: the dependencies of agentfiles.json (None: no file)
    opts,           \* commands.rs: the InstallOptions of the cmd_install that ran
    install_calls,  \* installer.rs: each call of install, its arguments and result
    cmd_result,     \* commands.rs: whether cmd_install returned Ok
    ledger_op       \* manifest.rs: the last add_dependency or remove_dependency
                    \* call on the manifest, its argument and result (an Option)

resolveVars == <<remote, git_pc, git_commands, branch, resolve_result, git_checked, resolve_calls, invocations, cache, resolving>>
gitVars == <<s1, s2, n1, n2, parsed_remote, git_url, resolveVars>>
scanVars == <<custom_paths, scanned, scan_result>>
pickVars == <<pick_files, pick_list, picked>>
installVars == <<home_dir, manifest, opts, install_calls, cmd_result, ledger_op>>
vars == <<phase, fs, gitVars, scanVars, pickVars, installVars>>

(***************************************************************************)
(* Option values: None is the empty sequence, Some(x) the one-element one. *)
(***************************************************************************)
None == <<>>
Some(x) == <<x>>
IsSome(o) == Len(o) = 1
Unwrap(o) == o[1]

\* Only({ rest : x \in {value} }) is `let x = value;` followed by the rest
\* of the function: the value is computed once, the rest reads it as x.
Only(S) == CHOOSE v \in S : TRUE

\* Result<Vec<FileMapping>>: Ok(list) or Err.
Ok(m) == [ok |-> TRUE, mappings |-> m]
Err == [ok |-> FALSE, mappings |-> <<>>]

\* The parts of the state an operation does not use stay at these values.
ResolveIdle ==
    /\ remote = None /\ git_pc = "idle" /\ git_commands = <<>>
    /\ branch = <<>> /\ resolve_result = "none"
    /\ git_checked = <<>> /\ resolve_calls = <<>>
    /\ invocations = <<>> /\ cache = <<>> /\ resolving = <<>>
GitIdle ==
    /\ s1 = <<>> /\ s2 = <<>> /\ n1 = None /\ n2 = None
    /\ parsed_remote = None /\ git_url = None
    /\ ResolveIdle
DiskIdle == fs = <<>>
ScanIdle == custom_paths = None /\ scanned = <<>> /\ scan_result = Err
PickIdle == pick_files = <<>> /\ pick_list = <<>> /\ picked = <<>>
InstallIdle ==
    /\ home_dir = None
    /\ manifest = None
    /\ opts = None
    /\ install_calls = <<>>
    /\ cmd_result = "none"
    /\ ledger_op = None

(***************************************************************************)
(* String helpers (std::str).                                              *)
(***************************************************************************)
StartsWith(s, p) == Len(s) >= Len(p) /\ SubSeq(s, 1, Len(p)) = p
EndsWith(s, p) == Len(s) >= Len(p) /\ SubSeq(s, Len(s) - Len(p) + 1, Len(s)) = p
Contains(s, c) == \E i \in 1..Len(s) : s[i] = c

\* str::rfind(char) from position `from` on: the greatest index >= from
\* holding c, or 0 when there is none (indices are 1-based here).
RFindFrom(s, c, from) ==
    LET hits == {i \in from..Len(s) : s[i] = c}
    IN  IF hits = {} THEN 0 ELSE CHOOSE i \in hits : \A j \in hits : j <= i

RFind(s, c) == RFindFrom(s, c, 1)

\* All strings over `alphabet` of length lo..hi.
StringsOver(alphabet, lo, hi) == UNION {[1..n -> alphabet] : n \in lo..hi}

(***************************************************************************)
(* git.rs                                                                  *)
(***************************************************************************)
HTTPS == <<"h","t","t","p","s",":","/","/">>
HTTP == <<"h","t","t","p",":","/","/">>
GIT_SCHEME == <<"g","i","t",":","/","/">>
SSH == <<"s","s","h",":","/","/">>
GIT_AT == <<"g","i","t","@">>
DOT_GIT == <<".","g","i","t">>

\* strip_ref: the ref delimiter is the last '@' found at or after the last
\* '/' of the input; an empty ref, or no '/', leaves the input whole.
\* Mutant: the last '@' of the input is the delimiter wherever it is.
strip_ref_any_at(input) ==
    LET absolute_pos == RFind(input, "@")
        git_ref == SubSeq(input, absolute_pos + 1, Len(input))
    IN  IF absolute_pos # 0 /\ git_ref # <<>>
        THEN [base |-> SubSeq(input, 1, absolute_pos - 1), git_ref |-> Some(git_ref)]
        ELSE [base |-> input, git_ref |-> None]

strip_ref(input) ==
    LET last_slash == RFind(input, "/")
        absolute_pos == IF last_slash = 0 THEN 0
                        ELSE RFindFrom(input, "@", last_slash)
        git_ref == SubSeq(input, absolute_pos + 1, Len(input))
    IN  IF last_slash # 0 /\ absolute_pos # 0 /\ git_ref # <<>>
        THEN [base |-> SubSeq(input, 1, absolute_pos - 1), git_ref |-> Some(git_ref)]
        ELSE [base |-> input, git_ref |-> None]

normalize_url(url) ==
    IF \/ StartsWith(url, HTTPS)
       \/ StartsWith(url, HTTP)
       \/ StartsWith(url, GIT_SCHEME)
       \/ StartsWith(url, SSH)
       \/ StartsWith(url, GIT_AT)
    THEN url
    ELSE HTTPS \o url

\* str::trim_end_matches(pattern): strips the suffix repeatedly.
RECURSIVE trim_end_matches(_, _)
trim_end_matches(s, p) ==
    IF p # <<>> /\ EndsWith(s, p)
    THEN trim_end_matches(SubSeq(s, 1, Len(s) - Len(p)), p)
    ELSE s

normalize_source(input) ==
    trim_end_matches(normalize_url(strip_ref(input).base), DOT_GIT)

\* Mutant: the url keeps the @ref of the input.
parse_remote_keeps_ref(input) ==
    LET r == strip_ref(input)
    IN  [url |-> normalize_url(input), git_ref |-> r.git_ref]

parse_remote(input) ==
    LET r == strip_ref(input)
    IN  [url |-> normalize_url(r.base), git_ref |-> r.git_ref]

KNOWN_HOSTS ==
    { <<"g","i","t","h","u","b",".","c","o","m","/">>,
      <<"g","i","t","l","a","b",".","c","o","m","/">>,
      <<"b","i","t","b","u","c","k","e","t",".","o","r","g","/">>,
      <<"c","o","d","e","b","e","r","g",".","o","r","g","/">>,
      <<"s","r",".","h","t","/">> }

is_git_url(input) ==
    LET b == strip_ref(input).base
    IN  \/ StartsWith(b, HTTPS) \/ StartsWith(b, HTTP)
        \/ StartsWith(b, GIT_SCHEME) \/ StartsWith(b, SSH)
        \/ (StartsWith(b, GIT_AT) /\ Contains(b, ":"))
        \/ \E host \in KNOWN_HOSTS : StartsWith(b, host)

(***************************************************************************)
(* Inputs of the normalization check: a scheme-less base that holds a '/'  *)
(* (host/path shorthand), spelled with or without an explicit https://, a  *)
(* trailing .git and an @ref suffix.                                       *)
(***************************************************************************)
MaxBaseLen == 4
BaseChars == {"r", "/", "."}
Bases == {b \in StringsOver(BaseChars, 1, MaxBaseLen) :
            /\ Contains(b, "/")
            /\ b[1] = "r"
            /\ ~EndsWith(b, <<"/">>)}

\* Refs: a tag, and a branch whose name holds a '/' (feature/x).
SimpleRefs == {<<"v","1">>}
SlashRefs == {<<"f","/","x">>}
Refs == SimpleRefs \cup SlashRefs

RefSuffixes(refs) == {<<>>} \cup {<<"@">> \o r : r \in refs}

SpellingsWith(b, refs) ==
    {scheme \o b \o dotgit \o ref :
        scheme \in {<<>>, HTTPS}, dotgit \in {<<>>, DOT_GIT}, ref \in RefSuffixes(refs)}

Spellings(b) == SpellingsWith(b, Refs)

InitNormalize ==
    /\ phase = "start"
    /\ \E b \in Bases : s1 \in Spellings(b) /\ s2 \in Spellings(b)
    /\ n1 = None
    /\ n2 = None
    /\ parsed_remote = None /\ git_url = None
    /\ ResolveIdle
    /\ DiskIdle /\ ScanIdle /\ PickIdle /\ InstallIdle

Normalize ==
    /\ phase = "start"
    /\ phase' = "normalized"
    /\ n1' = Some(normalize_source(s1))
    /\ n2' = Some(normalize_source(s2))
    /\ UNCHANGED <<s1, s2, parsed_remote, git_url, resolveVars, fs, scanVars, pickVars, installVars>>

NextNormalize == Normalize

SpecNormalize == InitNormalize /\ [][NextNormalize]_vars

\* C1: two spellings of one source that differ only by an explicit https://
\* scheme, a trailing .git or an @ref suffix (a ref holding a '/' included)
\* have the same normalized source.
C1_NormalizeAgrees ==
    phase = "normalized" => n1 = n2

\* The same statement for refs without a '/': the part of C1 the code keeps.
SameBaseSimpleRef ==
    \E b \in Bases : s1 \in SpellingsWith(b, SimpleRefs) /\ s2 \in SpellingsWith(b, SimpleRefs)

NormalizeAgreesSimpleRef ==
    (phase = "normalized" /\ SameBaseSimpleRef) => n1 = n2

(***************************************************************************)
(* Paths (std::path) and the file system.  A path is a sequence of names;  *)
(* the file system maps every existing absolute path to its node.          *)
(***************************************************************************)
Last(p) == p[Len(p)]
IsPrefix(a, p) == Len(a) <= Len(p) /\ SubSeq(p, 1, Len(a)) = a

\* Path::file_name: the last component, None for the empty path or "..".
file_name(p) == IF p = <<>> \/ Last(p) = <<".", ".">> THEN None ELSE Some(Last(p))

\* rsplit_file_at_dot: a name splits at its last '.', unless that dot is its
\* first character (".hidden") or the name holds none.
name_stem(name) ==
    LET dot == RFind(name, ".")
    IN  IF dot <= 1 THEN name ELSE SubSeq(name, 1, dot - 1)

name_extension(name) ==
    LET dot == RFind(name, ".")
    IN  IF dot <= 1 THEN None ELSE Some(SubSeq(name, dot + 1, Len(name)))

\* Path::file_stem().unwrap_or_default() and Path::extension().
file_stem(p) == IF file_name(p) = None THEN <<>> ELSE name_stem(Last(p))
extension(p) == IF file_name(p) = None THEN None ELSE name_extension(Last(p))

\* Path::strip_prefix(root).unwrap_or(path)
strip_prefix(p, root) ==
    IF IsPrefix(root, p) THEN SubSeq(p, Len(root) + 1, Len(p)) ELSE p

FileNode(c) == [type |-> "file", content |-> c, to |-> <<>>]
DirNode == [type |-> "dir", content |-> "", to |-> <<>>]
LinkNode(target) == [type |-> "link", content |-> "", to |-> target]

Parent(p) == SubSeq(p, 1, Len(p) - 1)

\* The real location of a path: its components are walked from the root and
\* a symbolic link met on the way is replaced by its target (links hold
\* canonical targets: installer.rs symlinks to source_path.canonicalize()).
\* None when a component is missing.
RECURSIVE canon_from(_, _, _)
canon_from(f, at, rest) ==
    IF rest = <<>> THEN Some(at)
    ELSE LET q == Append(at, Head(rest))
         IN  IF q \notin DOMAIN f THEN None
             ELSE IF f[q].type = "link"
                  THEN IF f[q].to \in DOMAIN f /\ f[f[q].to].type # "link"
                       THEN canon_from(f, f[q].to, Tail(rest))
                       ELSE None
                  ELSE canon_from(f, q, Tail(rest))

\* Path::canonicalize
canonicalize(f, p) == canon_from(f, <<>>, p)

\* The type of the node at a real location (an Option); the root is a
\* directory, a missing path has none.
TypeAt(f, loc) ==
    IF loc = None THEN "none"
    ELSE IF Unwrap(loc) = <<>> THEN "dir"
    ELSE f[Unwrap(loc)].type

\* Path::exists, is_dir, is_file follow symbolic links.
exists(f, p) == TypeAt(f, canonicalize(f, p)) # "none"
is_dir(f, p) == TypeAt(f, canonicalize(f, p)) = "dir"
is_file(f, p) == TypeAt(f, canonicalize(f, p)) = "file"

\* Where the entry named by p lives: the links of its parent are followed,
\* its last component is not.  None when the parent is no directory.
entry_location(f, p) ==
    IF p = <<>> THEN Some(<<>>)
    ELSE Only({ IF TypeAt(f, dir) = "dir"
                THEN Some(Append(Unwrap(dir), Last(p)))
                ELSE None
              : dir \in {canonicalize(f, Parent(p))} })

\* Path::is_symlink (symlink_metadata: the last component is not followed).
is_symlink(f, p) ==
    Only({ /\ loc # None
           /\ Unwrap(loc) \in DOMAIN f
           /\ f[Unwrap(loc)].type = "link"
         : loc \in {entry_location(f, p)} })

Children(f, dir) == {p \in DOMAIN f : Len(p) = Len(dir) + 1 /\ IsPrefix(dir, p)}

(***************************************************************************)
(* types.rs, provider.rs                                                   *)
(***************************************************************************)
FileKinds == {"Skill", "Agent", "Command"}
FileStrategies == {"Copy", "Link"}
FileScopes == {"Project", "Global"}

\* AgentProvider::all()
AllProviders == <<"ClaudeCode", "OpenCode", "Codex", "Cursor">>

N_SKILLS == <<"s","k","i","l","l","s">>
N_COMMANDS == <<"c","o","m","m","a","n","d","s">>
N_AGENTS == <<"a","g","e","n","t","s">>
N_DOT_CLAUDE == <<".","c","l","a","u","d","e">>
N_DOT_OPENCODE == <<".","o","p","e","n","c","o","d","e">>
N_DOT_AGENTS == <<".","a","g","e","n","t","s">>
N_DOT_CURSOR == <<".","c","u","r","s","o","r">>
N_DOT_CONFIG == <<".","c","o","n","f","i","g">>
N_OPENCODE == <<"o","p","e","n","c","o","d","e">>

\* AgentProvider::layout: bases are paths (".config/opencode" has two
\* components), a kind's subdirectory is an Option.
layout(provider) ==
    CASE provider = "ClaudeCode" ->
            [project_base |-> <<N_DOT_CLAUDE>>, global_base |-> <<N_DOT_CLAUDE>>,
             skills |-> Some(N_SKILLS), commands |-> Some(N_COMMANDS), agents |-> Some(N_AGENTS)]
      [] provider = "OpenCode" ->
            [project_base |-> <<N_DOT_OPENCODE>>, global_base |-> <<N_DOT_CONFIG, N_OPENCODE>>,
             skills |-> Some(N_SKILLS), commands |-> Some(N_COMMANDS), agents |-> Some(N_AGENTS)]
      [] provider = "Codex" ->
            [project_base |-> <<N_DOT_AGENTS>>, global_base |-> <<N_DOT_AGENTS>>,
             skills |-> Some(N_SKILLS), commands |-> None, agents |-> None]
      [] provider = "Cursor" ->
            [project_base |-> <<N_DOT_CURSOR>>, global_base |-> <<N_DOT_CURSOR>>,
             skills |-> Some(N_SKILLS), commands |-> Some(N_COMMANDS), agents |-> Some(N_AGENTS)]

\* ProviderLayout::kind_dir
kind_dir_of(lay, kind) ==
    CASE kind = "Skill" -> lay.skills
      [] kind = "Command" -> lay.commands
      [] kind = "Agent" -> lay.agents

\* ProviderLayout::base
base(lay, scope) == IF scope = "Project" THEN lay.project_base ELSE lay.global_base

supports_kind(provider, kind) == IsSome(kind_dir_of(layout(provider), kind))

\* Vec::dedup: drops an element equal to the one before it.
RECURSIVE dedup_adjacent(_)
dedup_adjacent(seq) ==
    IF Len(seq) <= 1 THEN seq
    ELSE LET rest == dedup_adjacent(Tail(seq))
         IN  IF Head(seq) = Head(rest) THEN rest ELSE <<Head(seq)>> \o rest

\* AgentProvider::project_bases (the scanner's PROJECT_BASES)
project_bases ==
    dedup_adjacent([i \in 1..Len(AllProviders) |-> layout(AllProviders[i]).project_base])

(***************************************************************************)
(* scanner.rs                                                              *)
(***************************************************************************)
N_SKILL_MD == <<"S","K","I","L","L",".","m","d">>
EXT_MD == <<"m","d">>

KIND_DIRS ==
    << [name |-> N_SKILLS, kind |-> "Skill"],
       [name |-> N_COMMANDS, kind |-> "Command"],
       [name |-> N_AGENTS, kind |-> "Agent"] >>

FileMapping(path, kind) == [path |-> path, kind |-> kind, strategy |-> "Copy"]

\* fs::read_dir yields a directory's entries in an order the platform picks:
\* here by a rank of the names, ascending or descending.
N_A == <<"a">>
N_B == <<"b">>
N_C == <<"c">>
N_E == <<"e">>
N_A_DOT_B == <<"a",".","b">>
N_A_MD == <<"a",".","m","d">>
N_B_MD == <<"b",".","m","d">>
N_D_MD == <<"d",".","m","d">>
N_A_TXT == <<"a",".","t","x","t">>
N_NOEXT == <<"n">>
N_README_MD == <<"R","E","A","D","M","E",".","m","d">>
N_GUIDE_MD == <<"G","U","I","D","E",".","m","d">>
N_NOTES_TXT == <<"n","o","t","e","s",".","t","x","t">>
N_PROMPTS == <<"p","r","o","m","p","t","s">>
N_MISSING == <<"m","i","s","s","i","n","g">>

N_X == <<"x">>
N_Y == <<"y">>
N_REVIEW == <<"r","e","v","i","e","w">>
N_DEPLOY == <<"d","e","p","l","o","y">>
N_REVIEW_MD == <<"r","e","v","i","e","w",".","m","d">>
N_DEPLOY_MD == <<"d","e","p","l","o","y",".","m","d">>
N_A_B_MD == <<"a",".","b",".","m","d">>
N_DOCS == <<"d","o","c","s">>
N_OLD_MD == <<"o","l","d",".","m","d">>
N_LNK == <<"l","n","k">>

NameOrder ==
    << N_DOT_AGENTS, N_DOT_CLAUDE, N_DOT_CURSOR, N_DOT_OPENCODE, N_GUIDE_MD,
       N_README_MD, N_SKILL_MD, N_A, N_A_DOT_B, N_A_B_MD, N_A_MD, N_A_TXT,
       N_AGENTS, N_B, N_B_MD, N_C, N_COMMANDS, N_D_MD, N_DEPLOY, N_DEPLOY_MD,
       N_DOCS, N_E, N_LNK, N_NOEXT, N_NOTES_TXT, N_OLD_MD, N_PROMPTS, N_REVIEW,
       N_REVIEW_MD, N_SKILLS, N_X, N_Y >>

NameRank(n) == CHOOSE i \in 1..Len(NameOrder) : NameOrder[i] = n

ReadDirOrders == {"ascending", "descending"}

Precedes(p, q, ord) ==
    IF ord = "ascending" THEN NameRank(Last(p)) <= NameRank(Last(q))
    ELSE NameRank(Last(p)) >= NameRank(Last(q))

RECURSIVE InOrder(_, _)
InOrder(S, ord) ==
    IF S = {} THEN <<>>
    ELSE LET first == CHOOSE p \in S : \A q \in S : Precedes(p, q, ord)
         IN  <<first>> \o InOrder(S \ {first}, ord)

\* The entries are those of the directory `dir` resolves to, each named
\* dir.join(file_name).
read_dir(f, ord, dir) ==
    InOrder({Append(dir, Last(c)) : c \in Children(f, Unwrap(canonicalize(f, dir)))}, ord)

\* scan_kind_dir, Skill arm: the entry is a skill when SKILL.md is a file in it.
has_skill_md(f, entry_path) == is_file(f, Append(entry_path, N_SKILL_MD))

\* Mutant: every file counts, whatever its extension.
is_md_file_any(f, entry_path) == is_file(f, entry_path)

\* scan_kind_dir, Command/Agent arm: the entry is a file with extension "md".
is_md_file(f, entry_path) ==
    is_file(f, entry_path) /\ extension(entry_path) = Some(EXT_MD)

RECURSIVE scan_kind_dir(_, _, _, _, _, _)
RECURSIVE scan_entries(_, _, _, _, _, _)

\* Mutant: a matched skill directory is descended into like any other.
after_skill_match_descends(f, ord, root, entry_path, kind, pushed) ==
    scan_kind_dir(f, ord, root, entry_path, kind, pushed)

\* scan_kind_dir, Skill arm, after a skill was pushed: `continue`, the matched
\* directory is not descended into.
after_skill_match(f, ord, root, entry_path, kind, pushed) == Ok(pushed)

\* scan_kind_dir, Command/Agent arm, an entry that is no .md file: the call
\* of scan_kind_dir on it is outside the `if entry_path.is_dir()`.
after_non_md_entry(f, ord, root, entry_path, kind, mappings) ==
    scan_kind_dir(f, ord, root, entry_path, kind, mappings)

\* One entry of scan_kind_dir's loop.
scan_entry(f, ord, root, entry_path, kind, mappings) ==
    LET pushed == Append(mappings, FileMapping(strip_prefix(entry_path, root), kind))
    IN  IF kind = "Skill"
        THEN IF is_dir(f, entry_path)
             THEN IF has_skill_md(f, entry_path)
                  THEN after_skill_match(f, ord, root, entry_path, kind, pushed)
                  ELSE scan_kind_dir(f, ord, root, entry_path, kind, mappings)
             ELSE Ok(mappings)
        ELSE IF is_md_file(f, entry_path)
             THEN Ok(pushed)
             ELSE after_non_md_entry(f, ord, root, entry_path, kind, mappings)

\* scan_kind_dir's loop over the entries; `?` ends it at the first error.
scan_entries(f, ord, root, entries, kind, mappings) ==
    IF entries = <<>> THEN Ok(mappings)
    ELSE LET r == scan_entry(f, ord, root, Head(entries), kind, mappings)
         IN  IF r.ok THEN scan_entries(f, ord, root, Tail(entries), kind, r.mappings)
             ELSE Err

\* fs::read_dir fails on what is not a directory.
scan_kind_dir(f, ord, root, kind_dir, kind, mappings) ==
    IF ~is_dir(f, kind_dir) THEN Err
    ELSE scan_entries(f, ord, root, read_dir(f, ord, kind_dir), kind, mappings)

\* scan_kind_dirs and the second loop of scan_default_convention: the kind
\* directories of KIND_DIRS from index i on, under `dir`.
RECURSIVE scan_kind_dirs_from(_, _, _, _, _, _)
scan_kind_dirs_from(f, ord, root, dir, i, mappings) ==
    IF i > Len(KIND_DIRS) THEN Ok(mappings)
    ELSE LET kind_dir == Append(dir, KIND_DIRS[i].name)
             r == IF is_dir(f, kind_dir)
                  THEN scan_kind_dir(f, ord, root, kind_dir, KIND_DIRS[i].kind, mappings)
                  ELSE Ok(mappings)
         IN  IF r.ok THEN scan_kind_dirs_from(f, ord, root, dir, i + 1, r.mappings)
             ELSE Err

scan_kind_dirs(f, ord, root, prefix_dir, mappings) ==
    scan_kind_dirs_from(f, ord, root, prefix_dir, 1, mappings)

\* The first loop of scan_default_convention, over the provider prefixes.
RECURSIVE scan_prefixes_from(_, _, _, _, _)
scan_prefixes_from(f, ord, root, i, mappings) ==
    IF i > Len(project_bases) THEN Ok(mappings)
    ELSE LET prefix_dir == root \o project_bases[i]
             r == IF is_dir(f, prefix_dir)
                  THEN scan_kind_dirs(f, ord, root, prefix_dir, mappings)
                  ELSE Ok(mappings)
         IN  IF r.ok THEN scan_prefixes_from(f, ord, root, i + 1, r.mappings)
             ELSE Err

\* Provider-prefixed directories first, then the bare kind directories.
scan_default_convention(f, ord, root, mappings) ==
    LET r == scan_prefixes_from(f, ord, root, 1, mappings)
    IN  IF r.ok THEN scan_kind_dirs_from(f, ord, root, root, 1, r.mappings)
        ELSE Err

\* scan_custom_paths, an override whose path does not exist: skipped.
missing_override(mappings) == Ok(mappings)

RECURSIVE scan_custom_paths(_, _, _, _, _)
scan_custom_paths(f, ord, root, paths, mappings) ==
    IF paths = <<>> THEN Ok(mappings)
    ELSE LET mapping == Head(paths)
             full_path == root \o mapping.path
             r == IF ~exists(f, full_path) THEN missing_override(mappings)
                  ELSE IF is_dir(f, full_path)
                  THEN scan_kind_dir(f, ord, root, full_path, mapping.kind, mappings)
                  ELSE IF is_file(f, full_path)
                  THEN Ok(Append(mappings,
                                 FileMapping(strip_prefix(full_path, root), mapping.kind)))
                  ELSE Ok(mappings)
         IN  IF r.ok THEN scan_custom_paths(f, ord, root, Tail(paths), r.mappings)
             ELSE Err

\* deduplicate's key, format!("{}:{}", m.kind, stem): no kind holds a ':',
\* so the key is the pair.
dedup_key(m) == <<m.kind, file_stem(m.path)>>

\* Vec::retain(|m| seen.insert(key)): keeps an element whose key is new.
RECURSIVE retain_unseen(_, _)
retain_unseen(mappings, seen) ==
    IF mappings = <<>> THEN <<>>
    ELSE LET m == Head(mappings)
         IN  IF dedup_key(m) \in seen
             THEN retain_unseen(Tail(mappings), seen)
             ELSE <<m>> \o retain_unseen(Tail(mappings), seen \cup {dedup_key(m)})

Reverse(seq) == [i \in 1..Len(seq) |-> seq[Len(seq) + 1 - i]]

\* Mutant: of each key the last occurrence is kept.
deduplicate_keep_last(mappings) == Reverse(retain_unseen(Reverse(mappings), {}))

\* Mutant: every occurrence is kept.
deduplicate_keeps_all(mappings) == mappings

deduplicate(mappings) == retain_unseen(mappings, {})

\* Mutant: the overrides are added to the default convention's findings.
collect_mappings_union(f, ord, root, custom) ==
    IF IsSome(custom)
    THEN LET r == scan_custom_paths(f, ord, root, Unwrap(custom), <<>>)
         IN  IF r.ok THEN scan_default_convention(f, ord, root, r.mappings) ELSE Err
    ELSE scan_default_convention(f, ord, root, <<>>)

\* scan_agent_files up to the call of deduplicate.
collect_mappings(f, ord, root, custom) ==
    IF IsSome(custom) THEN scan_custom_paths(f, ord, root, Unwrap(custom), <<>>)
    ELSE scan_default_convention(f, ord, root, <<>>)

scan_agent_files(f, ord, root, custom) ==
    LET r == collect_mappings(f, ord, root, custom)
    IN  IF r.ok THEN Ok(deduplicate(r.mappings)) ELSE Err

\* str::find(char): the least index holding c, 0 when there is none.
Find(s, c) ==
    LET hits == {i \in 1..Len(s) : s[i] = c}
    IN  IF hits = {} THEN 0 ELSE CHOOSE i \in hits : \A j \in hits : i <= j

\* str::split_once(char): the parts before and after the first c.
split_once(s, c) ==
    LET i == Find(s, c)
    IN  IF i = 0 THEN None
        ELSE Some([head |-> SubSeq(s, 1, i - 1), tail |-> SubSeq(s, i + 1, Len(s))])

\* Mutant: a kind prefix matches every kind.
kind_matches_any(kind_prefix, kind) == TRUE

\* filter_by_pick: `match kind_prefix { "skills" => ..., _ => false }`
kind_matches(kind_prefix, kind) ==
    CASE kind_prefix = N_SKILLS -> kind = "Skill"
      [] kind_prefix = N_COMMANDS -> kind = "Command"
      [] kind_prefix = N_AGENTS -> kind = "Agent"
      [] OTHER -> FALSE

\* filter_by_pick: the closure handed to pick.iter().any
pick_matches(m, p) ==
    LET name == file_stem(m.path)
        parts == split_once(p, "/")
    IN  IF IsSome(parts)
        THEN kind_matches(Unwrap(parts).head, m.kind) /\ name = Unwrap(parts).tail
        ELSE name = p

filter_by_pick(mappings, pick) ==
    LET keep(m) == \E i \in 1..Len(pick) : pick_matches(m, pick[i])
    IN  SelectSeq(mappings, keep)

(***************************************************************************)
(* std::fs operations that write.  Each returns whether it succeeded and   *)
(* the file system it leaves.                                              *)
(***************************************************************************)
IoOk(f) == [ok |-> TRUE, fs |-> f]
IoErr(f) == [ok |-> FALSE, fs |-> f]

Put(f, loc, node) == [q \in DOMAIN f \cup {loc} |-> IF q = loc THEN node ELSE f[q]]
RemoveTree(f, loc) == [q \in {r \in DOMAIN f : ~IsPrefix(loc, r)} |-> f[q]]

\* fs::create_dir_all: every missing directory of the path is made; a file
\* or a dangling link on the way is an error.
RECURSIVE create_dir_all_from(_, _, _)
create_dir_all_from(f, p, n) ==
    IF n > Len(p) THEN IoOk(f)
    ELSE IF is_dir(f, SubSeq(p, 1, n)) THEN create_dir_all_from(f, p, n + 1)
    ELSE Only({ IF loc = None \/ Unwrap(loc) \in DOMAIN f THEN IoErr(f)
                ELSE create_dir_all_from(Put(f, Unwrap(loc), DirNode), p, n + 1)
              : loc \in {entry_location(f, SubSeq(p, 1, n))} })

create_dir_all(f, p) == create_dir_all_from(f, p, 1)

\* What a file holds once it was opened with truncate and nothing written.
EMPTY == ""

\* fs::copy, the write: the file at real location dst is created or
\* truncated and gets the bytes of the file at src; when both are one file
\* it was truncated before it was read.
write_copy(f, src, dst) ==
    IF dst \in DOMAIN f /\ f[dst].type # "file" THEN IoErr(f)
    ELSE IF dst \notin DOMAIN f /\ ~is_dir(f, Parent(dst)) THEN IoErr(f)
    ELSE IoOk(Put(f, dst, FileNode(IF dst = src THEN EMPTY ELSE f[src].content)))

\* fs::copy(from, to): `from` is opened for reading, then `to` for writing
\* (a symbolic link at `to` is followed).
fs_copy(f, from, to) ==
    IF ~is_file(f, from) THEN IoErr(f)
    ELSE Only({ IF loc = None THEN IoErr(f)
                ELSE write_copy(f, Unwrap(canonicalize(f, from)),
                                IF Unwrap(loc) \in DOMAIN f /\ f[Unwrap(loc)].type = "link"
                                THEN f[Unwrap(loc)].to
                                ELSE Unwrap(loc))
              : loc \in {entry_location(f, to)} })

\* fs::remove_dir_all on a directory that is no symbolic link.
remove_dir_all(f, p) ==
    Only({ IF loc = None \/ Unwrap(loc) \notin DOMAIN f THEN IoErr(f)
           ELSE IoOk(RemoveTree(f, Unwrap(loc)))
         : loc \in {entry_location(f, p)} })

\* fs::remove_file: unlinks a file or a symbolic link, not a directory.
remove_file(f, p) ==
    Only({ IF loc = None \/ Unwrap(loc) \notin DOMAIN f THEN IoErr(f)
           ELSE IF f[Unwrap(loc)].type = "dir" THEN IoErr(f)
           ELSE IoOk(RemoveTree(f, Unwrap(loc)))
         : loc \in {entry_location(f, p)} })

\* std::os::unix::fs::symlink(original, link)
symlink(f, original, link) ==
    Only({ IF loc = None \/ Unwrap(loc) \in DOMAIN f THEN IoErr(f)
           ELSE IoOk(Put(f, Unwrap(loc), LinkNode(original)))
         : loc \in {entry_location(f, link)} })

(***************************************************************************)
(* provider.rs get_target_dir, installer.rs                                *)
(***************************************************************************)
\* Path::display of a relative and of an absolute path.
RECURSIVE display(_)
display(p) ==
    IF p = <<>> THEN <<>>
    ELSE IF Len(p) = 1 THEN p[1]
    ELSE p[1] \o <<"/">> \o display(Tail(p))

display_abs(p) == <<"/">> \o display(p)

\* AgentProvider::get_target_dir; `home` is what dirs::home_dir() returns.
\* None stands for the Err.
get_target_dir(provider, scope, kind, project_root, home) ==
    LET lay == layout(provider)
        kind_dir == kind_dir_of(lay, kind)
    IN  IF kind_dir = None THEN None
        ELSE IF scope = "Global" /\ home = None THEN None
        ELSE LET root == IF scope = "Project" THEN project_root ELSE Unwrap(home)
             IN  Some(root \o base(lay, scope) \o <<Unwrap(kind_dir)>>)

\* Mutant: the whole relative path is kept under the target directory.
resolve_target_path_keeps_structure(relative_path, target_dir) ==
    IF file_name(relative_path) = None THEN None
    ELSE Some(target_dir \o relative_path)

\* resolve_target_path; None stands for the Err.
resolve_target_path(relative_path, target_dir) ==
    IF file_name(relative_path) = None THEN None
    ELSE Some(Append(target_dir, Unwrap(file_name(relative_path))))

\* copy_dir_recursive: the entries of src are copied into dst, directories
\* recursively, symbolic links skipped.
RECURSIVE copy_dir_recursive(_, _, _, _)
RECURSIVE copy_entries(_, _, _, _)
copy_entries(f, ord, entries, dst) ==
    IF entries = <<>> THEN IoOk(f)
    ELSE Only({ IF done.ok THEN copy_entries(done.fs, ord, Tail(entries), dst) ELSE done
              : done \in {IF is_symlink(f, Head(entries)) THEN IoOk(f)
                          ELSE IF is_dir(f, Head(entries))
                          THEN copy_dir_recursive(f, ord, Head(entries),
                                                  Append(dst, Last(Head(entries))))
                          ELSE fs_copy(f, Head(entries),
                                       Append(dst, Last(Head(entries))))} })

copy_dir_recursive(f, ord, src, dst) ==
    Only({ IF ~made.ok THEN made
           ELSE IF ~is_dir(made.fs, src) THEN IoErr(made.fs)
           ELSE copy_entries(made.fs, ord, read_dir(made.fs, ord, src), dst)
         : made \in {create_dir_all(f, dst)} })

\* Mutant: the link is made to the source path as given, not canonicalized.
place_link_as_given(f, source_path, target_path) ==
    Only({ IF ~cleared.ok THEN cleared
           ELSE symlink(cleared.fs, source_path, target_path)
         : cleared \in {IF exists(f, target_path) \/ is_symlink(f, target_path)
                        THEN IF is_dir(f, target_path) /\ ~is_symlink(f, target_path)
                             THEN remove_dir_all(f, target_path)
                             ELSE remove_file(f, target_path)
                        ELSE IoOk(f)} })

\* install, FileStrategy::Link arm: what is at the target is removed, then
\* the target is made a symbolic link to the canonical source path.
place_link(f, source_path, target_path) ==
    Only({ IF ~cleared.ok THEN cleared
           ELSE Only({ IF abs_source = None THEN IoErr(cleared.fs)
                       ELSE symlink(cleared.fs, Unwrap(abs_source), target_path)
                     : abs_source \in {canonicalize(cleared.fs, source_path)} })
         : cleared \in {IF exists(f, target_path) \/ is_symlink(f, target_path)
                        THEN IF is_dir(f, target_path) /\ ~is_symlink(f, target_path)
                             THEN remove_dir_all(f, target_path)
                             ELSE remove_file(f, target_path)
                        ELSE IoOk(f)} })

\* install, FileStrategy::Copy arm
place_copy(f, ord, source_path, target_path) ==
    IF is_dir(f, source_path)
    THEN copy_dir_recursive(f, ord, source_path, target_path)
    ELSE fs_copy(f, source_path, target_path)

InstallResult(provider, file, target_path) ==
    [provider |-> provider, source |-> display(file.path),
     target |-> display_abs(target_path), strategy |-> file.strategy, kind |-> file.kind]

\* What install has done so far: whether it is still Ok, the file system,
\* the results pushed.
InstallOk(f, results) == [ok |-> TRUE, fs |-> f, results |-> results]
InstallErr(f) == [ok |-> FALSE, fs |-> f, results |-> <<>>]

\* Mutant: no provider is skipped for the kind.
skips_provider_never(provider, kind) == FALSE

\* install: `if !provider.supports_kind(&file.kind) { continue; }`
skips_provider(provider, kind) == ~supports_kind(provider, kind)

\* What placing one file for one provider gave: whether it succeeded, the
\* file system left, the target path.
Placed(io, target_path) == [ok |-> io.ok, fs |-> io.fs, target_path |-> target_path]

\* install, the body of the loop over the providers once the provider is
\* known to support the kind: the target is resolved and the file placed.
place(f, ord, file, source_path, provider, scope, project_root, home) ==
    Only({ IF target_dir = None THEN Placed(IoErr(f), None)
           ELSE Only({ IF target_path = None THEN Placed(IoErr(f), None)
                       ELSE Only({ IF ~made.ok THEN Placed(made, target_path)
                                   ELSE IF file.strategy = "Copy"
                                   THEN Placed(place_copy(made.fs, ord, source_path,
                                                          Unwrap(target_path)),
                                               target_path)
                                   ELSE Placed(place_link(made.fs, source_path,
                                                          Unwrap(target_path)),
                                               target_path)
                                 : made \in {create_dir_all(f, Parent(Unwrap(target_path)))} })
                     : target_path \in {resolve_target_path(file.path, Unwrap(target_dir))} })
         : target_dir \in {get_target_dir(provider, scope, file.kind, project_root, home)} })

\* install, the loop over the providers for one file.
RECURSIVE install_to_providers(_, _, _, _, _, _, _, _, _)
install_to_providers(f, ord, file, source_path, providers, scope, project_root, home, results) ==
    IF providers = <<>> THEN InstallOk(f, results)
    ELSE IF skips_provider(Head(providers), file.kind)
    THEN install_to_providers(f, ord, file, source_path, Tail(providers),
                              scope, project_root, home, results)
    ELSE Only({ IF ~placed.ok THEN InstallErr(placed.fs)
                ELSE install_to_providers(placed.fs, ord, file, source_path,
                         Tail(providers), scope, project_root, home,
                         Append(results,
                                InstallResult(Head(providers), file,
                                              Unwrap(placed.target_path))))
              : placed \in {place(f, ord, file, source_path, Head(providers),
                                  scope, project_root, home)} })

\* Mutant: an artifact whose source is missing is passed over.
RECURSIVE install_files_skips_missing(_, _, _, _, _, _, _, _, _)
install_files_skips_missing(f, ord, files, providers, scope, project_root, source_root, home, results) ==
    IF files = <<>> THEN InstallOk(f, results)
    ELSE IF ~exists(f, source_root \o Head(files).path)
    THEN install_files_skips_missing(f, ord, Tail(files), providers, scope,
                                     project_root, source_root, home, results)
    ELSE Only({ IF ~done.ok THEN done
                ELSE install_files_skips_missing(done.fs, ord, Tail(files), providers, scope,
                                                 project_root, source_root, home, done.results)
              : done \in {install_to_providers(f, ord, Head(files),
                              source_root \o Head(files).path,
                              providers, scope, project_root, home, results)} })

\* install, the loop over the files.
RECURSIVE install_files(_, _, _, _, _, _, _, _, _)
install_files(f, ord, files, providers, scope, project_root, source_root, home, results) ==
    IF files = <<>> THEN InstallOk(f, results)
    ELSE IF ~exists(f, source_root \o Head(files).path) THEN InstallErr(f)
    ELSE Only({ IF ~done.ok THEN done
                ELSE install_files(done.fs, ord, Tail(files), providers, scope,
                                   project_root, source_root, home, done.results)
              : done \in {install_to_providers(f, ord, Head(files),
                              source_root \o Head(files).path,
                              providers, scope, project_root, home, results)} })

install(f, ord, files, providers, scope, project_root, source_root, home) ==
    install_files(f, ord, files, providers, scope, project_root, source_root, home, <<>>)

(***************************************************************************)
(* manifest.rs                                                             *)
(***************************************************************************)
\* Dependency::Simple(source) and Dependency::Detailed(DependencySpec)
Simple(source) ==
    [detailed |-> FALSE, source |-> source, git_ref |-> None, pick |-> None,
     strategy |-> None, paths |-> None]
Detailed(source, git_ref, pick, strategy, paths) ==
    [detailed |-> TRUE, source |-> source, git_ref |-> git_ref, pick |-> pick,
     strategy |-> strategy, paths |-> paths]

\* Mutant: the sources are compared as spelled.
has_dependency_as_spelled(dependencies, source) ==
    \E i \in 1..Len(dependencies) : dependencies[i].source = source

\* Manifest::has_dependency
has_dependency(dependencies, source) ==
    \E i \in 1..Len(dependencies) :
        normalize_source(dependencies[i].source) = normalize_source(source)

\* Mutant: the dependency is appended whatever the list holds.
add_dependency_unchecked(dependencies, dep) ==
    [added |-> TRUE, dependencies |-> Append(dependencies, dep)]

\* Manifest::add_dependency: the list it leaves and whether it added.
add_dependency(dependencies, dep) ==
    IF has_dependency(dependencies, dep.source)
    THEN [added |-> FALSE, dependencies |-> dependencies]
    ELSE [added |-> TRUE, dependencies |-> Append(dependencies, dep)]

\* Mutant: only the first entry with the source is removed.
RECURSIVE remove_first(_, _)
remove_first(dependencies, normalized) ==
    IF dependencies = <<>> THEN <<>>
    ELSE IF normalize_source(Head(dependencies).source) = normalized
    THEN Tail(dependencies)
    ELSE <<Head(dependencies)>> \o remove_first(Tail(dependencies), normalized)

remove_dependency_first_only(dependencies, source) ==
    [removed |-> Len(remove_first(dependencies, normalize_source(source))) < Len(dependencies),
     dependencies |-> remove_first(dependencies, normalize_source(source))]

\* Manifest::remove_dependency: the list it leaves and whether it removed.
remove_dependency(dependencies, source) ==
    LET normalized == normalize_source(source)
        differs(d) == normalize_source(d.source) # normalized
        kept == SelectSeq(dependencies, differs)
    IN  [removed |-> Len(kept) < Len(dependencies), dependencies |-> kept]

(***************************************************************************)
(* commands.rs.  The sources are local paths; resolve_source's other arm,  *)
(* the clone of a remote, is not part of this model.                       *)
(***************************************************************************)
\* PathBuf::from(source) of an absolute path: its components.
RECURSIVE path_from(_)
path_from(s) ==
    LET i == Find(s, "/")
    IN  IF s = <<>> THEN <<>>
        ELSE IF i = 0 THEN <<s>>
        ELSE IF i = 1 THEN path_from(Tail(s))
        ELSE <<SubSeq(s, 1, i - 1)>> \o path_from(SubSeq(s, i + 1, Len(s)))

ResolveOk(dir, files) == [ok |-> TRUE, source_dir |-> dir, files |-> files]
ResolveErr == [ok |-> FALSE, source_dir |-> <<>>, files |-> <<>>]

resolve_local_source(f, ord, source, paths) ==
    Only({ IF ~exists(f, path) THEN ResolveErr
           ELSE Only({ Only({ IF ~scan.ok THEN ResolveErr
                              ELSE IF scan.mappings = <<>> THEN ResolveErr
                              ELSE ResolveOk(Unwrap(canonicalize(f, dir)), scan.mappings)
                            : scan \in {scan_agent_files(f, ord, dir, paths)} })
                     : dir \in {IF is_dir(f, path) THEN path ELSE Parent(path)} })
         : path \in {path_from(source)} })

\* Mutant: a dependency's strategy is applied after the CLI's.
apply_strategy_dependency_last(file, dep_strategy, strategy_override) ==
    LET first == IF IsSome(strategy_override)
                 THEN [file EXCEPT !.strategy = Unwrap(strategy_override)]
                 ELSE file
    IN  IF IsSome(dep_strategy)
        THEN [first EXCEPT !.strategy = Unwrap(dep_strategy)]
        ELSE first

\* install_dependency, the body of `for file in &mut files`;
\* install_from_source's loop is the same with no dependency strategy.
apply_strategy(file, dep_strategy, strategy_override) ==
    LET first == IF IsSome(dep_strategy) /\ file.strategy = "Copy"
                 THEN [file EXCEPT !.strategy = Unwrap(dep_strategy)]
                 ELSE file
    IN  IF IsSome(strategy_override)
        THEN [first EXCEPT !.strategy = Unwrap(strategy_override)]
        ELSE first

\* One call of installer::install: its arguments, the dependency it was
\* made for (None on the command line's source) and what it returned.
InstallCall(dep, files, providers, scope, source_root, before, done) ==
    [dep |-> dep, files |-> files, providers |-> providers, scope |-> scope,
     source_root |-> source_root, before |-> before, ok |-> done.ok,
     results |-> done.results]

\* What a command has done so far: whether it is still Ok, the file system,
\* the results gathered, the calls of install made.
CmdOk(f, results, calls) == [ok |-> TRUE, fs |-> f, results |-> results, calls |-> calls]
CmdErr(f, calls) == [ok |-> FALSE, fs |-> f, results |-> <<>>, calls |-> calls]

\* What came of a call of install in a command.
AfterInstall(call, f) ==
    IF call.ok THEN CmdOk(f, call.results, <<call>>) ELSE CmdErr(f, <<call>>)

\* install_dependency and install_from_source, the call of install.
call_install(f, ord, dep, files, providers, scope, project_root, source_dir, home) ==
    Only({ AfterInstall(InstallCall(dep, files, providers, scope, source_dir, f, done),
                        done.fs)
         : done \in {install(f, ord, files, providers, scope, project_root,
                             source_dir, home)} })

\* install_dependency and install_from_source, the strategy loop.
with_strategies(files, dep_strategy, strategy_override) ==
    [i \in 1..Len(files) |-> apply_strategy(files[i], dep_strategy, strategy_override)]

install_dependency(f, ord, dep, project_root, providers, scope, strategy_override, home) ==
    Only({ IF ~resolved.ok THEN CmdErr(f, <<>>)
           ELSE Only({ IF files = <<>> THEN CmdOk(f, <<>>, <<>>)
                       ELSE call_install(f, ord, Some(dep), files, providers, scope,
                                         project_root, resolved.source_dir, home)
                     : files \in {with_strategies(
                                      IF IsSome(dep.pick)
                                      THEN filter_by_pick(resolved.files, Unwrap(dep.pick))
                                      ELSE resolved.files,
                                      dep.strategy, strategy_override)} })
         : resolved \in {resolve_local_source(f, ord, dep.source, dep.paths)} })

\* Mutant: the loop goes on to the next dependency after a failed one and
\* reports the failure at the end.
RECURSIVE install_dependencies_keeps_going(_, _, _, _, _, _, _, _, _, _)
install_dependencies_keeps_going(f, ord, deps, project_root, providers, scope, strategy_override, home, total_results, calls) ==
    IF deps = <<>> THEN CmdOk(f, total_results, calls)
    ELSE Only({ Only({ IF one.ok /\ rest.ok THEN rest ELSE CmdErr(rest.fs, rest.calls)
                     : rest \in {install_dependencies_keeps_going(one.fs, ord, Tail(deps),
                                     project_root, providers, scope, strategy_override, home,
                                     total_results \o one.results, calls \o one.calls)} })
              : one \in {install_dependency(f, ord, Head(deps), project_root, providers,
                                            scope, strategy_override, home)} })

\* install_from_manifest, the loop over the dependencies.
RECURSIVE install_dependencies(_, _, _, _, _, _, _, _, _, _)
install_dependencies(f, ord, deps, project_root, providers, scope, strategy_override, home, total_results, calls) ==
    IF deps = <<>> THEN CmdOk(f, total_results, calls)
    ELSE Only({ IF ~one.ok THEN CmdErr(one.fs, calls \o one.calls)
                ELSE install_dependencies(one.fs, ord, Tail(deps), project_root,
                         providers, scope, strategy_override, home,
                         total_results \o one.results, calls \o one.calls)
              : one \in {install_dependency(f, ord, Head(deps), project_root, providers,
                                            scope, strategy_override, home)} })

\* install_from_manifest; `man` is agentfiles.json's dependencies, None
\* when the file is missing.
install_from_manifest(f, ord, man, project_root, providers, scope, strategy_override, home) ==
    IF man = None THEN CmdErr(f, <<>>)
    ELSE install_dependencies(f, ord, Unwrap(man), project_root, providers, scope,
                              strategy_override, home, <<>>, <<>>)

\* save_dependency: the manifest it leaves.
save_dependency(man, source, pick) ==
    LET loaded == IF man = None THEN <<>> ELSE Unwrap(man)
        parsed == parse_remote(source)
        normalized_source == IF is_git_url(source) THEN parsed.url ELSE source
        has_details == IsSome(parsed.git_ref) \/ IsSome(pick)
        dep == IF has_details
               THEN Detailed(normalized_source, parsed.git_ref, pick, None, None)
               ELSE Simple(normalized_source)
        added == add_dependency(loaded, dep)
    IN  IF added.added THEN Some(added.dependencies) ELSE man

\* Mutant: a pick list that matches nothing is no error on the command line
\* either.
install_from_source_empty_pick_ok(f, ord, source, project_root, providers, scope, strategy_override, pick, home) ==
    Only({ IF ~resolved.ok THEN CmdErr(f, <<>>)
           ELSE Only({ IF files = <<>> THEN CmdOk(f, <<>>, <<>>)
                       ELSE call_install(f, ord, None,
                                with_strategies(files, None, strategy_override),
                                providers, scope, project_root,
                                resolved.source_dir, home)
                     : files \in {IF IsSome(pick)
                                  THEN filter_by_pick(resolved.files, Unwrap(pick))
                                  ELSE resolved.files} })
         : resolved \in {resolve_local_source(f, ord, source, None)} })

\* install_from_source up to the call of save_dependency.
install_from_source(f, ord, source, project_root, providers, scope, strategy_override, pick, home) ==
    Only({ IF ~resolved.ok THEN CmdErr(f, <<>>)
           ELSE Only({ IF IsSome(pick) /\ files = <<>> THEN CmdErr(f, <<>>)
                       ELSE call_install(f, ord, None,
                                with_strategies(files, None, strategy_override),
                                providers, scope, project_root,
                                resolved.source_dir, home)
                     : files \in {IF IsSome(pick)
                                  THEN filter_by_pick(resolved.files, Unwrap(pick))
                                  ELSE resolved.files} })
         : resolved \in {resolve_local_source(f, ord, source, None)} })

(***************************************************************************)
(* The scans checked: a source root holding at most MaxEntries of the      *)
(* entries below (with the directories above them), scanned by the default *)
(* convention or with one of the override lists.                           *)
(***************************************************************************)
SOURCE_ROOT == << <<"s","r","c">> >>

MaxEntries == 3

FileEntry(path) == [path |-> path, type |-> "file"]
DirEntry(path) == [path |-> path, type |-> "dir"]

TreeEntries ==
    { FileEntry(<<N_DOT_CLAUDE, N_SKILLS, N_A, N_SKILL_MD>>),
      FileEntry(<<N_DOT_CURSOR, N_SKILLS, N_A, N_SKILL_MD>>),
      FileEntry(<<N_DOT_CLAUDE, N_COMMANDS, N_A_MD>>),
      FileEntry(<<N_SKILLS, N_A, N_SKILL_MD>>),
      FileEntry(<<N_SKILLS, N_A, N_B, N_SKILL_MD>>),
      FileEntry(<<N_SKILLS, N_C, N_B, N_SKILL_MD>>),
      FileEntry(<<N_SKILLS, N_C, N_README_MD>>),
      FileEntry(<<N_SKILLS, N_SKILL_MD>>),
      FileEntry(<<N_SKILLS, N_A_DOT_B, N_SKILL_MD>>),
      DirEntry(<<N_SKILLS, N_E>>),
      FileEntry(<<N_COMMANDS, N_A_MD>>),
      FileEntry(<<N_COMMANDS, N_C, N_A_MD>>),
      FileEntry(<<N_COMMANDS, N_C, N_B_MD>>),
      FileEntry(<<N_COMMANDS, N_A_TXT>>),
      FileEntry(<<N_COMMANDS, N_NOEXT>>),
      DirEntry(<<N_COMMANDS, N_D_MD>>),
      FileEntry(<<N_AGENTS, N_A_MD>>),
      FileEntry(<<N_PROMPTS, N_A, N_SKILL_MD>>),
      FileEntry(<<N_PROMPTS, N_B_MD>>),
      FileEntry(<<N_GUIDE_MD>>),
      FileEntry(<<N_NOTES_TXT>>) }

ProperPrefixes(p) == {SubSeq(p, 1, k) : k \in 0..(Len(p) - 1)}

\* The file system holding `entries` under `root`.
TreeOf(root, entries) ==
    LET files == {root \o e.path : e \in {x \in entries : x.type = "file"}}
        dirs == {root}
                \cup {root \o e.path : e \in {x \in entries : x.type = "dir"}}
                \cup UNION {{root \o a : a \in ProperPrefixes(e.path)} : e \in entries}
                \cup ProperPrefixes(root)
    IN  [p \in files \cup dirs |-> IF p \in files THEN FileNode("x") ELSE DirNode]

Trees == {TreeOf(SOURCE_ROOT, es) : es \in {x \in SUBSET TreeEntries : Cardinality(x) <= MaxEntries}}

PathMapping(path, kind) == [path |-> path, kind |-> kind]

CustomPathLists ==
    { <<>>,
      <<PathMapping(<<N_PROMPTS>>, "Skill")>>,
      <<PathMapping(<<N_PROMPTS>>, "Command")>>,
      <<PathMapping(<<N_MISSING>>, "Skill")>>,
      <<PathMapping(<<N_MISSING>>, "Command"), PathMapping(<<N_PROMPTS>>, "Skill")>>,
      <<PathMapping(<<N_GUIDE_MD>>, "Skill")>>,
      <<PathMapping(<<N_NOTES_TXT>>, "Command")>>,
      <<PathMapping(<<N_PROMPTS>>, "Command"), PathMapping(<<N_NOTES_TXT>>, "Command")>>,
      <<PathMapping(<<N_COMMANDS>>, "Agent"), PathMapping(<<N_GUIDE_MD>>, "Agent")>>,
      <<PathMapping(<<N_SKILLS, N_A>>, "Skill")>>,
      <<PathMapping(<<N_SKILLS, N_C>>, "Skill"), PathMapping(<<N_SKILLS>>, "Skill")>> }

InitScan ==
    /\ phase = "start"
    /\ fs \in Trees
    /\ custom_paths = None
    /\ scanned = <<>>
    /\ scan_result = Err
    /\ GitIdle /\ PickIdle /\ InstallIdle

\* scan_agent_files(root, None); `scanned` keeps the list deduplicate got.
ScanDefault ==
    \E ord \in ReadDirOrders :
        /\ phase = "start"
        /\ phase' = "scanned"
        /\ custom_paths' = None
        /\ scanned' = collect_mappings(fs, ord, SOURCE_ROOT, None).mappings
        /\ scan_result' = scan_agent_files(fs, ord, SOURCE_ROOT, None)
        /\ UNCHANGED <<fs, gitVars, pickVars, installVars>>

\* scan_agent_files(root, Some(paths))
ScanCustom ==
    \E paths \in CustomPathLists, ord \in ReadDirOrders :
        /\ phase = "start"
        /\ phase' = "scanned"
        /\ custom_paths' = Some(paths)
        /\ scanned' = collect_mappings(fs, ord, SOURCE_ROOT, Some(paths)).mappings
        /\ scan_result' = scan_agent_files(fs, ord, SOURCE_ROOT, Some(paths))
        /\ UNCHANGED <<fs, gitVars, pickVars, installVars>>

NextScan == ScanDefault \/ ScanCustom

SpecScan == InitScan /\ [][NextScan]_vars

(***************************************************************************)
(* Properties of the scanner.                                              *)
(***************************************************************************)
ScanOk == phase = "scanned" /\ scan_result.ok
Found == scan_result.mappings

KindStem(m) == <<m.kind, file_stem(m.path)>>
ProviderPrefixes == {project_bases[i] : i \in 1..Len(project_bases)}
UnderProviderPrefix(m) == \E pre \in ProviderPrefixes : IsPrefix(pre, m.path)
FirstWithKey(i) == \A j \in 1..(i - 1) : KindStem(scanned[j]) # KindStem(scanned[i])
\* The elements of `scanned` at the indices in I, in order.
RECURSIVE Pick(_, _)
Pick(i, I) ==
    IF i > Len(scanned) THEN <<>>
    ELSE (IF i \in I THEN <<scanned[i]>> ELSE <<>>) \o Pick(i + 1, I)

\* C2: the list scan_agent_files returns holds no two artifacts with the same
\* (kind, stem); it is the collected list with, of each (kind, stem), only the
\* first occurrence kept; and the default convention collects everything
\* under a provider prefix before anything in a bare kind directory, so that
\* a (kind, stem) found in both places is returned rooted under the prefix.
C2_DedupKeepsFirst ==
    ScanOk =>
        /\ \A i, j \in 1..Len(Found) : i # j => KindStem(Found[i]) # KindStem(Found[j])
        /\ Found = Pick(1, {i \in 1..Len(scanned) : FirstWithKey(i)})
        /\ custom_paths = None =>
            /\ \A i, j \in 1..Len(scanned) :
                  (UnderProviderPrefix(scanned[i]) /\ ~UnderProviderPrefix(scanned[j])) => i < j
            /\ \A i \in 1..Len(Found) :
                  (\E j \in 1..Len(scanned) :
                       /\ KindStem(scanned[j]) = KindStem(Found[i])
                       /\ UnderProviderPrefix(scanned[j]))
                  => UnderProviderPrefix(Found[i])

\* A name found under a provider prefix and in the bare directory, returned once.
C2_Witness ==
    /\ ScanOk
    /\ custom_paths = None
    /\ \E i, j \in 1..Len(scanned) :
          /\ UnderProviderPrefix(scanned[i])
          /\ ~UnderProviderPrefix(scanned[j])
          /\ KindStem(scanned[i]) = KindStem(scanned[j])
    /\ Len(Found) < Len(scanned)

\* The directories scan_kind_dir was called on for skills by the scan made.
ScannedSkillDirs ==
    IF phase # "scanned" THEN {}
    ELSE IF custom_paths = None
    THEN {d \in {SOURCE_ROOT \o <<N_SKILLS>>} \cup {SOURCE_ROOT \o pre \o <<N_SKILLS>> : pre \in ProviderPrefixes} :
            is_dir(fs, d)}
    ELSE {SOURCE_ROOT \o Unwrap(custom_paths)[i].path : i \in
            {k \in 1..Len(Unwrap(custom_paths)) :
                /\ Unwrap(custom_paths)[k].kind = "Skill"
                /\ is_dir(fs, SOURCE_ROOT \o Unwrap(custom_paths)[k].path)}}

StrictlyUnder(d, top) == IsPrefix(top, d) /\ Len(d) > Len(top)
HoldsSkillMd(d) == Append(d, N_SKILL_MD) \in DOMAIN fs /\ fs[Append(d, N_SKILL_MD)].type = "file"
\* d is a skill of the scan of `top`: it holds SKILL.md and no directory
\* between `top` and d does.
FirstSkillLevel(d, top) ==
    /\ StrictlyUnder(d, top)
    /\ fs[d].type = "dir"
    /\ HoldsSkillMd(d)
    /\ \A a \in ProperPrefixes(d) : StrictlyUnder(a, top) => ~HoldsSkillMd(a)

CollectedSkillDirs ==
    {SOURCE_ROOT \o scanned[i].path : i \in {k \in 1..Len(scanned) : scanned[k].kind = "Skill"}}

\* C3: scanning for skills records a directory exactly when it holds a
\* SKILL.md and no directory above it, inside the scanned directory, does:
\* nothing under a recorded skill is recorded, directories without SKILL.md
\* are descended into, and a tree without SKILL.md gives no skill.
C3_SkillAtFirstLevel ==
    ScanOk =>
        \A d \in {p \in DOMAIN fs : fs[p].type = "dir"} :
            (d \in CollectedSkillDirs) <=> (\E top \in ScannedSkillDirs : FirstSkillLevel(d, top))

\* A skill nested beneath a recorded skill, and ignored.
C3_Witness ==
    /\ ScanOk
    /\ custom_paths = None
    /\ \E d \in CollectedSkillDirs :
          \E e \in DOMAIN fs : StrictlyUnder(e, d) /\ fs[e].type = "dir" /\ HoldsSkillMd(e)
    /\ \E d \in CollectedSkillDirs : Len(d) > Len(SOURCE_ROOT) + 2

\* The directories the default convention scans for `kind`.
DefaultKindDirs(kind) ==
    LET name == IF kind = "Skill" THEN N_SKILLS
                ELSE IF kind = "Command" THEN N_COMMANDS ELSE N_AGENTS
    IN  {d \in {SOURCE_ROOT \o <<name>>} \cup {SOURCE_ROOT \o pre \o <<name>> : pre \in ProviderPrefixes} :
            d \in DOMAIN fs /\ fs[d].type = "dir"}

MdFilesUnder(top) ==
    {p \in DOMAIN fs :
        /\ StrictlyUnder(p, top)
        /\ fs[p].type = "file"
        /\ RFind(Last(p), ".") > 1
        /\ SubSeq(Last(p), RFind(Last(p), ".") + 1, Len(Last(p))) = EXT_MD}

CollectedOfKind(kind) ==
    {SOURCE_ROOT \o scanned[i].path : i \in {k \in 1..Len(scanned) : scanned[k].kind = kind}}

\* C4: the default scan of commands and agents directories succeeds on every
\* tree and collects exactly the files, at any depth, whose extension is md;
\* a file with another extension, or none, is passed over without an error.
C4_FileKindsScanSucceeds ==
    (phase = "scanned" /\ custom_paths = None) =>
        /\ scan_result.ok
        /\ \A kind \in {"Command", "Agent"} :
              CollectedOfKind(kind) = UNION {MdFilesUnder(top) : top \in DefaultKindDirs(kind)}

\* The part of C4 the code keeps: a scan that succeeds collected exactly
\* the md files.
FileKindsCollectMdFiles ==
    (ScanOk /\ custom_paths = None) =>
        \A kind \in {"Command", "Agent"} :
            CollectedOfKind(kind) = UNION {MdFilesUnder(top) : top \in DefaultKindDirs(kind)}

Overrides == Unwrap(custom_paths)
OverrideExists(o) == exists(fs, SOURCE_ROOT \o o.path)
ExistingOverrides == SelectSeq(Overrides, OverrideExists)

\* C5: with a list of overrides the default convention is not consulted:
\* every artifact returned lies under (or is) an override's path and has
\* that override's kind; an override whose path does not exist changes
\* nothing (the scan is the scan of the overrides that exist) and a list of
\* only such overrides gives the empty list, not an error.
C5_OverridesReplaceDefaults ==
    (phase = "scanned" /\ custom_paths # None) =>
        /\ scan_result.ok =>
              \A i \in 1..Len(Found) : \E k \in 1..Len(Overrides) :
                  /\ IsPrefix(Overrides[k].path, Found[i].path)
                  /\ Overrides[k].kind = Found[i].kind
        /\ \E ord \in ReadDirOrders :
              scan_result = scan_agent_files(fs, ord, SOURCE_ROOT, Some(ExistingOverrides))
        /\ ExistingOverrides = <<>> => scan_result = Ok(<<>>)

\* Overrides, one of them missing, on a tree that also holds a skill of the
\* default convention, which is not returned.
C5_Witness ==
    /\ ScanOk
    /\ custom_paths # None
    /\ Len(ExistingOverrides) < Len(Overrides)
    /\ Found # <<>>
    /\ \E top \in DefaultKindDirs("Skill") : \E d \in DOMAIN fs :
          /\ FirstSkillLevel(d, top)
          /\ \A i \in 1..Len(Found) : SOURCE_ROOT \o Found[i].path # d

\* The data model's invariant of an artifact.
WellFormed(m) ==
    LET full == SOURCE_ROOT \o m.path
    IN  /\ full \in DOMAIN fs
        /\ IF m.kind = "Skill"
           THEN fs[full].type = "dir" /\ HoldsSkillMd(full)
           ELSE full \in MdFilesUnder(SOURCE_ROOT)

\* C6 as claimed: every artifact of every scan, by the default convention or
\* by overrides, is a directory holding SKILL.md (Skill) or a file with
\* extension md (Command, Agent).
C6_EveryMappingWellFormed ==
    ScanOk => \A i \in 1..Len(Found) : WellFormed(Found[i])

\* m is an override that names a file, recorded as given.
IsFileOverride(m) ==
    /\ custom_paths # None
    /\ \E k \in 1..Len(Overrides) :
          /\ Overrides[k].path = m.path
          /\ Overrides[k].kind = m.kind
          /\ (SOURCE_ROOT \o m.path) \in DOMAIN fs
          /\ fs[SOURCE_ROOT \o m.path].type = "file"

\* C6 as amended: every artifact found by scanning a directory (the default
\* convention, or an override that names a directory) is well formed; the
\* only other artifacts are the overrides that name a file, recorded with the
\* override's kind whatever the file is.
C6_MappingWellFormedOrFileOverride ==
    ScanOk =>
        /\ \A i \in 1..Len(Found) : WellFormed(Found[i]) \/ IsFileOverride(Found[i])
        /\ custom_paths = None => \A i \in 1..Len(Found) : WellFormed(Found[i])

\* One scan returning an artifact of each sort: found in a directory, and a
\* file override that is not well formed.
C6_Witness ==
    /\ ScanOk
    /\ \E i \in 1..Len(Found) : WellFormed(Found[i]) /\ ~IsFileOverride(Found[i])
    /\ \E i \in 1..Len(Found) : IsFileOverride(Found[i]) /\ ~WellFormed(Found[i])

(***************************************************************************)
(* filter_by_pick applied to lists of at most MaxPickFiles artifacts.      *)
(***************************************************************************)
MaxPickFiles == 4

Slash(a, b) == a \o <<"/">> \o b
N_NOMATCH == <<"n","o","n","e">>

PickMappings ==
    { FileMapping(<<N_SKILLS, N_REVIEW>>, "Skill"),
      FileMapping(<<N_COMMANDS, N_REVIEW_MD>>, "Command"),
      FileMapping(<<N_COMMANDS, N_DEPLOY_MD>>, "Command"),
      FileMapping(<<N_AGENTS, N_X, N_DEPLOY_MD>>, "Agent"),
      FileMapping(<<N_COMMANDS, N_A_B_MD>>, "Command") }

PickLists ==
    { <<>>,
      <<N_REVIEW>>,
      <<N_DEPLOY>>,
      <<N_NOMATCH>>,
      <<N_A_DOT_B>>,
      <<N_A>>,
      <<Slash(N_SKILLS, N_REVIEW)>>,
      <<Slash(N_COMMANDS, N_REVIEW)>>,
      <<Slash(N_AGENTS, N_DEPLOY)>>,
      <<Slash(N_X, N_DEPLOY)>>,
      <<Slash(N_COMMANDS, N_REVIEW_MD)>>,
      <<Slash(N_AGENTS, Slash(N_X, N_DEPLOY))>>,
      <<Slash(N_SKILLS, N_REVIEW), Slash(N_COMMANDS, N_REVIEW), Slash(N_AGENTS, N_REVIEW)>>,
      <<Slash(N_SKILLS, N_DEPLOY), Slash(N_COMMANDS, N_DEPLOY), Slash(N_AGENTS, N_DEPLOY)>>,
      <<Slash(N_COMMANDS, N_DEPLOY), N_REVIEW>>,
      <<N_REVIEW, N_REVIEW>> }

InitPick ==
    /\ phase = "start"
    /\ pick_files \in UNION {[1..n -> PickMappings] : n \in 0..MaxPickFiles}
    /\ pick_list = <<>>
    /\ picked = <<>>
    /\ DiskIdle /\ GitIdle /\ ScanIdle /\ InstallIdle

FilterByPick ==
    \E pick \in PickLists :
        /\ phase = "start"
        /\ phase' = "picked"
        /\ pick_list' = pick
        /\ picked' = filter_by_pick(pick_files, pick)
        /\ UNCHANGED <<pick_files, fs, gitVars, scanVars, installVars>>

NextPick == FilterByPick

SpecPick == InitPick /\ [][NextPick]_vars

KindDirName(kind) ==
    IF kind = "Skill" THEN N_SKILLS ELSE IF kind = "Command" THEN N_COMMANDS ELSE N_AGENTS

\* The token names the artifact: by its stem alone, or by kind/stem.
Names(tok, m) ==
    \/ tok = file_stem(m.path)
    \/ tok = Slash(KindDirName(m.kind), file_stem(m.path))

MatchingIndices == {i \in 1..Len(pick_files) : \E k \in 1..Len(pick_list) : Names(pick_list[k], pick_files[i])}

NthOf(I, k) == CHOOSE i \in I : Cardinality({j \in I : j < i}) = k - 1

\* C7: filter_by_pick returns, in their original order, exactly the
\* artifacts some token names, a token kind/name naming only the artifact
\* of that kind with stem name and a bare name the artifacts of any kind
\* with that stem; so a bare name picks what skills/name, commands/name and
\* agents/name pick together.
C7_PickFilter ==
    phase = "picked" =>
        /\ Len(picked) = Cardinality(MatchingIndices)
        /\ \A k \in 1..Len(picked) : picked[k] = pick_files[NthOf(MatchingIndices, k)]
        /\ \A n \in {N_REVIEW, N_DEPLOY, N_A_DOT_B, N_A, N_NOMATCH} :
              pick_list = <<n>> =>
                  picked = filter_by_pick(pick_files,
                               <<Slash(N_SKILLS, n), Slash(N_COMMANDS, n), Slash(N_AGENTS, n)>>)

\* A kind/name token left out the artifact of another kind with that stem,
\* and a bare name kept artifacts of two kinds, in their order.
C7_Witness ==
    /\ phase = "picked"
    /\ pick_list = <<Slash(N_COMMANDS, N_DEPLOY), N_REVIEW>>
    /\ \E i \in 1..Len(pick_files) :
          pick_files[i].kind = "Agent" /\ file_stem(pick_files[i].path) = N_DEPLOY
    /\ \E i, j \in 1..Len(picked) :
          i < j /\ picked[i].kind = "Command" /\ picked[j].kind = "Skill"
               /\ file_stem(picked[i].path) = N_REVIEW /\ file_stem(picked[j].path) = N_REVIEW
    /\ \E i \in 1..Len(picked) : file_stem(picked[i].path) = N_DEPLOY

(***************************************************************************)
(* The install commands run on a disk that holds a source tree at /src, a  *)
(* project at /p and a home directory at /h.                               *)
(***************************************************************************)
PROJECT_ROOT == << <<"p">> >>
HOME == << <<"h">> >>
SRC == <<"/","s","r","c">>
NO_SRC == <<"/","n","o","n","e">>
\* A directory of the source that holds no artifact.
EMPTY_SRC == <<"/","s","r","c","/","s","k","i","l","l","s","/","r","e","v","i","e","w","/","d","o","c","s">>

At(path, node) == [path |-> path, node |-> node]

\* The file system holding the nodes given, and the directories above them.
DiskOf(nodes) ==
    LET given == {n.path : n \in nodes}
        dirs == UNION {ProperPrefixes(q) : q \in given} \ given
    IN  [q \in given \cup dirs |->
            IF q \in given THEN (CHOOSE n \in nodes : n.path = q).node ELSE DirNode]

SourceNodes ==
    { At(SOURCE_ROOT \o <<N_SKILLS, N_REVIEW, N_SKILL_MD>>, FileNode("review skill")),
      At(SOURCE_ROOT \o <<N_SKILLS, N_REVIEW, N_DOCS, N_A_MD>>, FileNode("review doc")),
      At(SOURCE_ROOT \o <<N_SKILLS, N_REVIEW, N_LNK>>,
         LinkNode(SOURCE_ROOT \o <<N_COMMANDS, N_DEPLOY_MD>>)),
      At(SOURCE_ROOT \o <<N_A, N_B, N_SKILLS, N_X, N_Y, N_REVIEW, N_SKILL_MD>>,
         FileNode("other review skill")),
      At(SOURCE_ROOT \o <<N_COMMANDS, N_DEPLOY_MD>>, FileNode("deploy command")),
      At(SOURCE_ROOT \o <<N_COMMANDS, N_REVIEW_MD>>, FileNode("review command")),
      At(SOURCE_ROOT \o <<N_AGENTS, N_DEPLOY_MD>>, FileNode("deploy agent")),
      At(PROJECT_ROOT, DirNode),
      At(HOME, DirNode) }

CLAUDE_REVIEW == PROJECT_ROOT \o <<N_DOT_CLAUDE, N_SKILLS, N_REVIEW>>

\* The project before the command: untouched, or ClaudeCode's review skill
\* already there as a copy, or as a link to the source.
CleanDisk == DiskOf(SourceNodes)
UsedDisks ==
    { DiskOf(SourceNodes \cup {At(Append(CLAUDE_REVIEW, N_OLD_MD), FileNode("old"))}),
      DiskOf(SourceNodes \cup {At(CLAUDE_REVIEW, LinkNode(SOURCE_ROOT \o <<N_SKILLS, N_REVIEW>>))}) }

\* A project where ClaudeCode's agents directory cannot be made: a file has
\* its name.
BlockedDisk ==
    DiskOf(SourceNodes \cup {At(PROJECT_ROOT \o <<N_DOT_CLAUDE, N_AGENTS>>, FileNode("not a directory"))})

StrategyOptions == {None, Some("Copy"), Some("Link")}
PickOptions == {None, Some(<<N_REVIEW>>)}
PathsOptions == {None, Some(<<PathMapping(<<N_A, N_B, N_SKILLS>>, "Skill")>>)}

Dependencies ==
    {Simple(SRC), Simple(NO_SRC)}
    \cup {Detailed(SRC, None, pick, strategy, None) :
             pick \in PickOptions, strategy \in StrategyOptions}
    \cup {Detailed(SRC, None, None, Some("Link"), paths) : paths \in PathsOptions}

\* Two or three dependencies of which one fails, first or later: its source
\* is missing, or holds no artifact.
OrderedManifests ==
    { Some(<<Simple(NO_SRC), Simple(SRC)>>),
      Some(<<Simple(SRC), Simple(NO_SRC)>>),
      Some(<<Detailed(SRC, None, Some(<<N_REVIEW>>), None, None), Simple(EMPTY_SRC),
             Simple(SRC)>>) }

\* Two dependencies that place an artifact of the same kind and name: the
\* source's review skill and the one below a/b/skills, the source's deploy
\* command and its deploy agent taken as a command.
ContendingManifests ==
    { Some(<<Detailed(SRC, None, Some(<<N_REVIEW>>), first, None),
             Detailed(SRC, None, None, second,
                      Some(<<PathMapping(<<N_A, N_B, N_SKILLS>>, "Skill")>>))>>) :
          first \in StrategyOptions, second \in StrategyOptions }
    \cup
    { Some(<<Detailed(SRC, None, Some(<<N_DEPLOY>>), first, None),
             Detailed(SRC, None, None, second,
                      Some(<<PathMapping(<<N_AGENTS>>, "Command")>>))>>) :
          first \in StrategyOptions, second \in StrategyOptions }

Manifests ==
    {None, Some(<<>>)}
    \cup {Some(<<dep>>) : dep \in Dependencies}
    \cup { Some(<<Detailed(SRC, None, None, Some("Link"), None),
                  Detailed(SRC, None, Some(<<N_REVIEW>>), Some("Copy"), None)>>),
           Some(<<Detailed(SRC, None, Some(<<N_NOMATCH>>), None, None),
                  Detailed(SRC, None, None, None,
                           Some(<<PathMapping(<<N_A, N_B, N_SKILLS>>, "Skill")>>))>>) }
    \cup OrderedManifests
    \cup ContendingManifests
    \cup {Some(<<Simple(SRC \o DOT_GIT)>>)}

\* A used disk, or no home directory, is met with one of these.
FewManifests ==
    {None, Some(<<Simple(SRC)>>), Some(<<Detailed(SRC, None, None, Some("Link"), None)>>),
     Some(<<Detailed(SRC, None, Some(<<N_REVIEW>>), None, None), Simple(SRC)>>)}

ProviderLists ==
    { <<"ClaudeCode">>, <<"Codex">>, <<"Codex", "ClaudeCode">>, AllProviders }

SourcePicks ==
    {None, Some(<<N_REVIEW>>), Some(<<Slash(N_COMMANDS, N_DEPLOY)>>), Some(<<N_NOMATCH>>)}

WithStrategy(m, strategy) == [m EXCEPT !.strategy = strategy]

\* Lists handed to install directly, as a caller of the library may.
DirectFileLists ==
    { <<>>,
      <<FileMapping(<<N_SKILLS, N_REVIEW>>, "Skill"),
        FileMapping(<<N_A, N_B, N_SKILLS, N_X, N_Y, N_REVIEW>>, "Skill")>>,
      <<WithStrategy(FileMapping(<<N_COMMANDS, N_DEPLOY_MD>>, "Command"), "Link"),
        FileMapping(<<N_AGENTS, N_DEPLOY_MD>>, "Agent"),
        WithStrategy(FileMapping(<<N_SKILLS, N_REVIEW>>, "Skill"), "Link")>>,
      <<FileMapping(<<N_COMMANDS, N_DEPLOY_MD>>, "Command"),
        FileMapping(<<N_COMMANDS, N_MISSING>>, "Command")>>,
      <<FileMapping(<<>>, "Skill")>>,
      <<WithStrategy(FileMapping(<<N_COMMANDS, N_DEPLOY_MD>>, "Command"), "Link"),
        FileMapping(<<N_COMMANDS, N_DEPLOY_MD>>, "Command")>>,
      <<WithStrategy(FileMapping(<<N_SKILLS, N_REVIEW>>, "Skill"), "Link")>> }

InstallOptions(source, scope, providers, strategy, pick, no_save) ==
    [source |-> source, scope |-> scope, providers |-> providers,
     strategy |-> strategy, pick |-> pick, no_save |-> no_save]

InitInstall ==
    /\ phase = "start"
    /\ \/ fs = CleanDisk /\ home_dir = Some(HOME) /\ manifest \in Manifests
       \/ fs \in UsedDisks /\ home_dir = Some(HOME) /\ manifest \in FewManifests
       \/ fs = CleanDisk /\ home_dir = None /\ manifest \in FewManifests
       \/ fs = BlockedDisk /\ home_dir = Some(HOME) /\ manifest = None
    /\ opts = None
    /\ install_calls = <<>>
    /\ cmd_result = "none"
    /\ ledger_op = None
    /\ GitIdle /\ ScanIdle /\ PickIdle

\* Mutant: the dependency is saved whether or not the placements succeeded.
InstallFromSourceSavesAnyway ==
    /\ phase = "start"
    /\ \E source \in {SRC, NO_SRC}, pick \in SourcePicks, strategy \in StrategyOptions,
          providers \in ProviderLists, scope \in FileScopes, no_save \in BOOLEAN,
          ord \in ReadDirOrders :
           \E done \in {install_from_source(fs, ord, source, PROJECT_ROOT, providers, scope,
                                            strategy, pick, home_dir)} :
               /\ ~is_git_url(source)
               /\ phase' = "install_from_source"
               /\ opts' = Some(InstallOptions(Some(source), scope, providers, strategy, pick, no_save))
               /\ fs' = done.fs
               /\ install_calls' = done.calls
               /\ cmd_result' = IF done.ok THEN "ok" ELSE "err"
               /\ manifest' = IF ~no_save
                              THEN save_dependency(manifest, source, pick)
                              ELSE manifest
               /\ UNCHANGED <<home_dir, ledger_op, gitVars, scanVars, pickVars>>

\* cmd_install with a source: install_from_source, then save_dependency
\* unless no_save is set.
InstallFromSource ==
    /\ phase = "start"
    /\ \E source \in {SRC, NO_SRC}, pick \in SourcePicks, strategy \in StrategyOptions,
          providers \in ProviderLists, scope \in FileScopes, no_save \in BOOLEAN,
          ord \in ReadDirOrders :
           \E done \in {install_from_source(fs, ord, source, PROJECT_ROOT, providers, scope,
                                            strategy, pick, home_dir)} :
               /\ ~is_git_url(source)
               /\ phase' = "install_from_source"
               /\ opts' = Some(InstallOptions(Some(source), scope, providers, strategy, pick, no_save))
               /\ fs' = done.fs
               /\ install_calls' = done.calls
               /\ cmd_result' = IF done.ok THEN "ok" ELSE "err"
               /\ manifest' = IF done.ok /\ ~no_save
                              THEN save_dependency(manifest, source, pick)
                              ELSE manifest
               /\ UNCHANGED <<home_dir, ledger_op, gitVars, scanVars, pickVars>>

\* cmd_install without a source: install_from_manifest.
InstallFromManifest ==
    /\ phase = "start"
    /\ \E strategy \in StrategyOptions, providers \in ProviderLists, scope \in FileScopes,
          ord \in ReadDirOrders :
           \E done \in {install_from_manifest(fs, ord, manifest, PROJECT_ROOT, providers,
                                              scope, strategy, home_dir)} :
               /\ manifest # None =>
                     \A i \in 1..Len(Unwrap(manifest)) : ~is_git_url(Unwrap(manifest)[i].source)
               /\ phase' = "install_from_manifest"
               /\ opts' = Some(InstallOptions(None, scope, providers, strategy, None, FALSE))
               /\ fs' = done.fs
               /\ install_calls' = done.calls
               /\ cmd_result' = IF done.ok THEN "ok" ELSE "err"
               /\ UNCHANGED <<manifest, home_dir, ledger_op, gitVars, scanVars, pickVars>>

\* installer::install called with a list of the caller's own.
Install ==
    /\ phase = "start"
    /\ \E files \in DirectFileLists, providers \in ProviderLists, scope \in FileScopes,
          ord \in ReadDirOrders :
           \E done \in {install(fs, ord, files, providers, scope, PROJECT_ROOT, SOURCE_ROOT,
                                home_dir)} :
               /\ phase' = "install"
               /\ fs' = done.fs
               /\ install_calls' = <<InstallCall(None, files, providers, scope, SOURCE_ROOT, fs, done)>>
               /\ cmd_result' = IF done.ok THEN "ok" ELSE "err"
               /\ UNCHANGED <<opts, manifest, home_dir, ledger_op, gitVars, scanVars, pickVars>>

NextInstall == InstallFromSource \/ InstallFromManifest \/ Install

SpecInstall == InitInstall /\ [][NextInstall]_vars

Calls == {install_calls[i] : i \in 1..Len(install_calls)}
ResultsOf(c) == {c.results[k] : k \in 1..Len(c.results)}
RanCommand == phase \in {"install_from_source", "install_from_manifest"}

\* The strategy the precedence rule gives the artifacts of call c.
DependencyStrategy(c) == IF c.dep = None THEN None ELSE Unwrap(c.dep).strategy
ExpectedStrategy(c) ==
    IF Unwrap(opts).strategy # None THEN Unwrap(Unwrap(opts).strategy)
    ELSE IF DependencyStrategy(c) # None THEN Unwrap(DependencyStrategy(c))
    ELSE "Copy"

SupportingProviders(c, i) ==
    LET has_subdir(provider) ==
            \/ c.files[i].kind = "Skill"
            \/ provider # "Codex"
    IN  SelectSeq(c.providers, has_subdir)

RECURSIVE SupportingPairsFrom(_, _)
SupportingPairsFrom(c, i) ==
    IF i > Len(c.files) THEN <<>>
    ELSE [k \in 1..Len(SupportingProviders(c, i)) |->
             [file |-> c.files[i], provider |-> SupportingProviders(c, i)[k]]]
         \o SupportingPairsFrom(c, i + 1)

SupportingPairs(c) == SupportingPairsFrom(c, 1)

\* Nothing but an unsupported kind stands in the way of call c.
NothingElseFails(c) ==
    /\ \A i \in 1..Len(c.files) :
          /\ c.files[i].path # <<>>
          /\ exists(c.before, c.source_root \o c.files[i].path)
    /\ c.scope = "Global" => home_dir # None
    /\ \A i \in 1..Len(c.files), k \in 1..Len(c.providers) :
          LET target_dir == get_target_dir(c.providers[k], c.scope, c.files[i].kind,
                                           PROJECT_ROOT, home_dir)
          IN  (target_dir # None /\ Unwrap(target_dir) \in DOMAIN c.before) =>
                  c.before[Unwrap(target_dir)].type = "dir"

\* C9: install reports a pair (artifact, provider) only if the provider's
\* layout has a subdirectory for the artifact's kind; Codex is passed over
\* for commands and agents without an error; and a call that succeeds
\* reports every supporting pair once, artifact-major in input order.
C9_OnlySupportingProviders ==
    \A c \in Calls :
        /\ \A r \in ResultsOf(c) :
              /\ kind_dir_of(layout(r.provider), r.kind) # None
              /\ r.provider = "Codex" => r.kind = "Skill"
        /\ NothingElseFails(c) => c.ok
        /\ c.ok =>
              /\ Len(c.results) = Len(SupportingPairs(c))
              /\ \A k \in 1..Len(c.results) :
                    /\ c.results[k].provider = SupportingPairs(c)[k].provider
                    /\ c.results[k].source = display(SupportingPairs(c)[k].file.path)
                    /\ c.results[k].kind = SupportingPairs(c)[k].file.kind

\* A call for Codex and another provider, with a command and a skill: Codex
\* is reported for the skill alone.
C9_Witness ==
    \E c \in Calls :
        /\ c.ok
        /\ \E j \in 1..Len(c.providers) : c.providers[j] = "Codex"
        /\ \E i \in 1..Len(c.files) : c.files[i].kind = "Command"
        /\ \E r \in ResultsOf(c) : r.provider = "Codex" /\ r.kind = "Skill"
        /\ \E r \in ResultsOf(c) : r.provider = "ClaudeCode" /\ r.kind = "Command"
        /\ \A r \in ResultsOf(c) : r.provider = "Codex" => r.kind = "Skill"

\* The layout table of the providers: base directory by scope, and the
\* subdirectory of a kind.
BaseOf(provider, scope) ==
    CASE provider = "ClaudeCode" -> <<N_DOT_CLAUDE>>
      [] provider = "OpenCode" ->
            IF scope = "Project" THEN <<N_DOT_OPENCODE>> ELSE <<N_DOT_CONFIG, N_OPENCODE>>
      [] provider = "Codex" -> <<N_DOT_AGENTS>>
      [] provider = "Cursor" -> <<N_DOT_CURSOR>>

ScopeRoot(scope) == IF scope = "Project" THEN PROJECT_ROOT ELSE Unwrap(home_dir)

TargetOf(c, pair) ==
    ScopeRoot(c.scope) \o BaseOf(pair.provider, c.scope)
        \o <<KindDirName(pair.file.kind)>> \o <<Last(pair.file.path)>>

SKILLS_REVIEW == <<"s","k","i","l","l","s","/","r","e","v","i","e","w">>
DEEP_REVIEW ==
    <<"a","/","b","/","s","k","i","l","l","s","/","x","/","y","/","r","e","v","i","e","w">>
P_CLAUDE_SKILLS_REVIEW ==
    <<"/","p","/",".","c","l","a","u","d","e","/","s","k","i","l","l","s","/","r","e","v","i","e","w">>
P_AGENTS_SKILLS_REVIEW ==
    <<"/","p","/",".","a","g","e","n","t","s","/","s","k","i","l","l","s","/","r","e","v","i","e","w">>

\* C10: every placement install reports is at
\* scope root / base(provider, scope) / subdir(provider, kind) / basename,
\* the last component of the artifact's path alone being kept, and the
\* artifact is there when the call returns Ok; a/b/skills/x/y/review and
\* skills/review get one target name, and in Project scope at /p the
\* skill skills/review is put at /p/.claude/skills/review for ClaudeCode
\* and at /p/.agents/skills/review for Codex.
C10_TargetPath ==
    \A c \in Calls :
        c.ok =>
            /\ Len(c.results) = Len(SupportingPairs(c))
            /\ \A k \in 1..Len(c.results) :
                  /\ c.results[k].target = display_abs(TargetOf(c, SupportingPairs(c)[k]))
                  /\ exists(fs, TargetOf(c, SupportingPairs(c)[k]))
            /\ \A r \in ResultsOf(c) :
                  (c.scope = "Project" /\ r.kind = "Skill" /\ r.source \in {SKILLS_REVIEW, DEEP_REVIEW}) =>
                      /\ r.provider = "ClaudeCode" => r.target = P_CLAUDE_SKILLS_REVIEW
                      /\ r.provider = "Codex" => r.target = P_AGENTS_SKILLS_REVIEW

\* One call placed skills/review and a/b/skills/x/y/review, for ClaudeCode
\* and for Codex, in Project scope.
C10_Witness ==
    \E c \in Calls :
        /\ c.ok
        /\ c.scope = "Project"
        /\ \E r \in ResultsOf(c) : r.source = SKILLS_REVIEW /\ r.target = P_CLAUDE_SKILLS_REVIEW
        /\ \E r \in ResultsOf(c) : r.source = DEEP_REVIEW /\ r.target = P_CLAUDE_SKILLS_REVIEW
        /\ \E r \in ResultsOf(c) : r.source = SKILLS_REVIEW /\ r.target = P_AGENTS_SKILLS_REVIEW
        /\ is_file(fs, CLAUDE_REVIEW \o <<N_SKILL_MD>>)

\* What the default scan of the source finds, and whether a pick list names
\* none of it.
ArtifactsOf(f) == scan_agent_files(f, "ascending", SOURCE_ROOT, None).mappings
PicksNothing(f, pick) ==
    \A k \in 1..Len(pick) :
        \A i \in 1..Len(ArtifactsOf(f)) : ~Names(pick[k], ArtifactsOf(f)[i])

Deps == Unwrap(manifest)
PicksNothingAt(i) ==
    /\ Deps[i].source = SRC /\ Deps[i].paths = None
    /\ Deps[i].pick # None /\ PicksNothing(fs, Unwrap(Deps[i].pick))
CalledFor(i) == {c \in Calls : c.dep = Some(Deps[i])}
DoneAt(i) == PicksNothingAt(i) \/ \E c \in CalledFor(i) : c.ok

\* What C18 says of `install` without a source: a dependency whose pick list
\* names nothing has no call of install made for it, the dependencies
\* behind it are still installed, and the command succeeds when they are.
NoMatchInManifest ==
    (phase = "install_from_manifest" /\ manifest # None) =>
        \A i \in 1..Len(Deps) :
            PicksNothingAt(i) =>
                /\ CalledFor(i) = {}
                /\ \A j \in (i + 1)..Len(Deps) :
                      ((\A k \in 1..(j - 1) : DoneAt(k)) /\ Deps[j].source = SRC
                          /\ ~PicksNothingAt(j)) => CalledFor(j) # {}
                /\ (\A k \in 1..Len(Deps) : DoneAt(k)) => cmd_result = "ok"

\* What C18 says of `install <source>`: with a pick list that names nothing
\* the command fails, calls install for nothing, leaves the disk as it was
\* and does not save the dependency.
NoMatchOnCommandLine ==
    (/\ phase' = "install_from_source"
     /\ Unwrap(opts').source = Some(SRC)
     /\ Unwrap(opts').pick # None
     /\ PicksNothing(fs, Unwrap(Unwrap(opts').pick)))
        => (cmd_result' = "err" /\ install_calls' = <<>> /\ fs' = fs /\ manifest' = manifest)

\* C18: a pick list that matches no scanned artifact makes `install <source>`
\* fail with nothing placed and agentfiles.json not written, while a
\* manifest dependency with such a pick list contributes no placement, is no
\* error, and the dependencies after it are still processed.
C18_PickMatchesNothing ==
    [][NoMatchOnCommandLine]_vars /\ []NoMatchInManifest

\* `install` over a manifest whose first dependency picks nothing: it
\* succeeded, with the one call of install made for the second dependency
\* and that dependency's skill placed.
C18_Witness ==
    /\ phase = "install_from_manifest" /\ cmd_result = "ok"
    /\ Len(Deps) = 2 /\ PicksNothingAt(1)
    /\ Len(install_calls) = 1
    /\ install_calls[1].dep = Some(Deps[2])
    /\ install_calls[1].results # <<>>
    /\ \A r \in ResultsOf(install_calls[1]) : exists(fs, path_from(r.target))

(***************************************************************************)
(* install run twice: the second run is given the files, providers and     *)
(* scope of the first, on the disk the first left.                         *)
(***************************************************************************)
CLAUDE_DEPLOY_MD == PROJECT_ROOT \o <<N_DOT_CLAUDE, N_COMMANDS, N_DEPLOY_MD>>

\* The project before the first run: as for the commands, or with a regular
\* file where ClaudeCode's review skill goes, or with ClaudeCode's deploy
\* command already there as a file or as a link to the source.
RerunDisks ==
    {CleanDisk} \cup UsedDisks
    \cup { DiskOf(SourceNodes \cup {At(CLAUDE_REVIEW, FileNode("old"))}),
           DiskOf(SourceNodes \cup {At(CLAUDE_DEPLOY_MD, FileNode("old"))}),
           DiskOf(SourceNodes \cup {At(CLAUDE_DEPLOY_MD,
                                       LinkNode(SOURCE_ROOT \o <<N_COMMANDS, N_DEPLOY_MD>>))}) }

RerunFileLists ==
    DirectFileLists
    \cup { <<FileMapping(<<N_SKILLS, N_REVIEW>>, "Skill")>>,
           <<FileMapping(<<N_COMMANDS, N_DEPLOY_MD>>, "Command"),
             FileMapping(<<N_SKILLS, N_REVIEW>>, "Skill")>>,
           <<WithStrategy(FileMapping(<<N_SKILLS, N_REVIEW>>, "Skill"), "Link"),
             WithStrategy(FileMapping(<<N_A, N_B, N_SKILLS, N_X, N_Y, N_REVIEW>>, "Skill"), "Link")>>,
           <<FileMapping(<<N_SKILLS, N_REVIEW>>, "Skill"),
             WithStrategy(FileMapping(<<N_SKILLS, N_REVIEW>>, "Skill"), "Link")>>,
           <<WithStrategy(FileMapping(<<N_SKILLS, N_REVIEW, N_LNK>>, "Command"), "Link")>>,
           <<FileMapping(<<N_COMMANDS, N_DEPLOY_MD>>, "Command"),
             FileMapping(<<N_COMMANDS, N_MISSING>>, "Command"),
             FileMapping(<<N_COMMANDS, N_REVIEW_MD>>, "Command")>> }

InitRerun ==
    /\ phase = "start"
    /\ fs \in RerunDisks
    /\ home_dir = Some(HOME)
    /\ manifest = None
    /\ opts = None
    /\ install_calls = <<>>
    /\ cmd_result = "none"
    /\ ledger_op = None
    /\ GitIdle /\ ScanIdle /\ PickIdle

\* installer::install, the first run.
FirstRun ==
    /\ phase = "start"
    /\ \E files \in RerunFileLists, providers \in ProviderLists, scope \in FileScopes,
          ord \in ReadDirOrders :
           \E done \in {install(fs, ord, files, providers, scope, PROJECT_ROOT, SOURCE_ROOT,
                                home_dir)} :
               /\ phase' = "ran"
               /\ fs' = done.fs
               /\ install_calls' = <<InstallCall(None, files, providers, scope, SOURCE_ROOT, fs, done)>>
               /\ cmd_result' = IF done.ok THEN "ok" ELSE "err"
               /\ UNCHANGED <<opts, manifest, home_dir, ledger_op, gitVars, scanVars, pickVars>>

\* installer::install, run again with the arguments of the first run.
SecondRun ==
    /\ phase = "ran"
    /\ \E ord \in ReadDirOrders :
           \E done \in {install(fs, ord, install_calls[1].files, install_calls[1].providers,
                                install_calls[1].scope, PROJECT_ROOT, SOURCE_ROOT, home_dir)} :
               /\ phase' = "reran"
               /\ fs' = done.fs
               /\ install_calls' =
                     Append(install_calls,
                            InstallCall(None, install_calls[1].files, install_calls[1].providers,
                                        install_calls[1].scope, SOURCE_ROOT, fs, done))
               /\ cmd_result' = IF done.ok THEN "ok" ELSE "err"
               /\ UNCHANGED <<opts, manifest, home_dir, ledger_op, gitVars, scanVars, pickVars>>

NextRerun == FirstRun \/ SecondRun

SpecRerun == InitRerun /\ [][NextRerun]_vars

Reran == phase = "reran"
AllOf(c, strategy) == \A i \in 1..Len(c.files) : c.files[i].strategy = strategy

\* The paths a result names, and the bytes of the file a path leads to.
TargetPath(r) == path_from(r.target)
SourcePath(c, r) == c.source_root \o path_from(r.source)
ContentAt(f, p) == f[Unwrap(canonicalize(f, p))].content

\* The regular files of the artifact at src, as paths below it (the empty
\* path when the artifact is a file); what lies behind a link is not there.
FilesBelow(f, src) ==
    {SubSeq(q, Len(src) + 1, Len(q)) :
        q \in {r \in DOMAIN f : IsPrefix(src, r) /\ f[r].type = "file"}}

\* Result k of call c is the last of the call to write the target file t.
LastToWrite(f, c, k, t) ==
    \A j \in (k + 1)..Len(c.results) :
        \A rel \in FilesBelow(f, SourcePath(c, c.results[j])) :
            TargetPath(c.results[j]) \o rel # t

\* C11: when install with Copy for every artifact succeeded and is run again
\* with the same artifacts, providers and scope, the second run succeeds and
\* every target file holds what it held after the first run, which is the
\* content of the source file it was last copied from.
C11_CopyTwiceSameContent ==
    (Reran /\ install_calls[1].ok /\ AllOf(install_calls[1], "Copy")) =>
        /\ install_calls[2].ok
        /\ install_calls[2].results = install_calls[1].results
        /\ \A k \in 1..Len(install_calls[2].results) :
              \A rel \in FilesBelow(fs, SourcePath(install_calls[2], install_calls[2].results[k])) :
                  /\ is_file(install_calls[2].before,
                             TargetPath(install_calls[2].results[k]) \o rel)
                  /\ is_file(fs, TargetPath(install_calls[2].results[k]) \o rel)
                  /\ ContentAt(fs, TargetPath(install_calls[2].results[k]) \o rel)
                        = ContentAt(install_calls[2].before,
                                    TargetPath(install_calls[2].results[k]) \o rel)
                  /\ LastToWrite(fs, install_calls[2], k,
                                 TargetPath(install_calls[2].results[k]) \o rel)
                        => ContentAt(fs, TargetPath(install_calls[2].results[k]) \o rel)
                              = fs[SourcePath(install_calls[2], install_calls[2].results[k]) \o rel].content

\* The first run left every file of the source as it found it.
SourceKept ==
    \A q \in DOMAIN install_calls[1].before :
        IsPrefix(SOURCE_ROOT, q) =>
            /\ q \in DOMAIN install_calls[2].before
            /\ install_calls[2].before[q] = install_calls[1].before[q]

\* Where no target of the first run led into the source, the second run
\* does leave every target file as the first did.
CopyTwiceSameContentSourceKept ==
    (Reran /\ SourceKept) => C11_CopyTwiceSameContent

Ran == phase \in {"ran", "reran"}
LastCall == install_calls[Len(install_calls)]

\* Result k of call c is the last of the call to make a link at its target.
LastToLink(c, k) ==
    \A j \in (k + 1)..Len(c.results) :
        c.results[j].strategy = "Link" => TargetPath(c.results[j]) # TargetPath(c.results[k])

\* The entry at p itself is a symbolic link to `to` and nothing lies below it.
IsLinkTo(f, p, to) ==
    /\ p \in DOMAIN f
    /\ f[p] = LinkNode(to)
    /\ \A q \in DOMAIN f : IsPrefix(p, q) => q = p

\* Everything at or below loc is in g as it is in f.
SameBelow(f, g, loc) ==
    \A q \in DOMAIN f : IsPrefix(loc, q) => (q \in DOMAIN g /\ g[q] = f[q])

\* What the entry at p pointed to, when it was a symbolic link.
PointedTo(f, p) ==
    IF p \in DOMAIN f /\ f[p].type = "link" THEN {f[p].to} ELSE {}

\* C12: after a successful install, the target of every Link placement (the
\* last one made there) is a symbolic link to the canonical source path with
\* nothing below it, whatever was there before; what a previous link at the
\* target pointed to is as it was when every artifact was linked; and a
\* second run with Link succeeds and leaves the disk exactly as the first.
C12_LinkReplacesTarget ==
    /\ (Ran /\ LastCall.ok) =>
          \A k \in 1..Len(LastCall.results) :
              (LastCall.results[k].strategy = "Link" /\ LastToLink(LastCall, k)) =>
                  /\ IsLinkTo(fs, TargetPath(LastCall.results[k]),
                              Unwrap(canonicalize(LastCall.before,
                                                  SourcePath(LastCall, LastCall.results[k]))))
                  /\ \A old \in PointedTo(LastCall.before, TargetPath(LastCall.results[k])) :
                        AllOf(LastCall, "Link") => SameBelow(LastCall.before, fs, old)
    /\ (Reran /\ AllOf(LastCall, "Link") /\ install_calls[1].ok) =>
          (LastCall.ok /\ fs = LastCall.before)

CLAUDE_LNK == PROJECT_ROOT \o <<N_DOT_CLAUDE, N_COMMANDS, N_LNK>>

\* The review skill linked where a real directory with a file of its own
\* was, and linked again where the first run's link was.
C12_Witness ==
    /\ Reran /\ install_calls[1].ok /\ LastCall.ok /\ AllOf(LastCall, "Link")
    /\ is_file(install_calls[1].before, Append(CLAUDE_REVIEW, N_OLD_MD))
    /\ is_symlink(LastCall.before, CLAUDE_REVIEW)
    /\ \E r \in ResultsOf(LastCall) : r.strategy = "Link" /\ TargetPath(r) = CLAUDE_REVIEW
    /\ IsLinkTo(fs, CLAUDE_REVIEW, SOURCE_ROOT \o <<N_SKILLS, N_REVIEW>>)

\* The artifacts of call c whose source path was not there before the call.
MissingIn(c) ==
    {k \in 1..Len(c.files) : ~exists(c.before, c.source_root \o c.files[k].path)}
FirstMissing(c) == CHOOSE k \in MissingIn(c) : \A j \in MissingIn(c) : k <= j

\* What installing only the artifacts before the k-th leaves, for some order
\* of reading the directories.
AsAfterPrefix(c, k, f) ==
    \E ord \in ReadDirOrders :
        f = install(c.before, ord, SubSeq(c.files, 1, k - 1), c.providers, c.scope,
                    PROJECT_ROOT, c.source_root, home_dir).fs

\* The targets of the artifacts of call c from the k-th on that are not
\* targets of an artifact before it.
TargetsFrom(c, k) ==
    {TargetOf(c, [provider |-> c.providers[i], file |-> c.files[j]]) :
        i \in 1..Len(c.providers), j \in k..Len(c.files)}
    \ {TargetOf(c, [provider |-> c.providers[i], file |-> c.files[j]]) :
        i \in 1..Len(c.providers), j \in 1..(k - 1)}

\* C13: when the source of the k-th artifact is missing, install returns an
\* error, the disk is what installing the artifacts before the k-th leaves
\* (their placements stay), and nothing is placed for the k-th or a later
\* artifact: their targets are as before the call.
C13_MissingSourceAborts ==
    (Ran /\ MissingIn(LastCall) # {}) =>
        /\ ~LastCall.ok
        /\ AsAfterPrefix(LastCall, FirstMissing(LastCall), fs)
        /\ \A t \in TargetsFrom(LastCall, FirstMissing(LastCall)) :
              /\ t \in DOMAIN fs <=> t \in DOMAIN LastCall.before
              /\ SameBelow(fs, LastCall.before, t)

\* The deploy command was copied, then the second artifact's source was
\* missing: the copy is there, the third artifact's target is not.
C13_Witness ==
    /\ Ran /\ ~LastCall.ok
    /\ Len(LastCall.files) = 3 /\ FirstMissing(LastCall) = 2
    /\ LastCall.providers = <<"ClaudeCode">> /\ LastCall.scope = "Project"
    /\ ~exists(LastCall.before, CLAUDE_DEPLOY_MD)
    /\ ContentAt(fs, CLAUDE_DEPLOY_MD) = "deploy command"
    /\ ~exists(fs, PROJECT_ROOT \o <<N_DOT_CLAUDE, N_COMMANDS, N_REVIEW_MD>>)
    /\ ~exists(fs, PROJECT_ROOT \o <<N_DOT_CLAUDE, N_COMMANDS, N_MISSING>>)

(***************************************************************************)
(* The dependency list of a Manifest as add_dependency and                 *)
(* remove_dependency change it.  It starts as some agentfiles.json gave    *)
(* it, which may hold one source twice.                                    *)
(***************************************************************************)
MaxDeps == 3

REPO == <<"r","/","r">>
OTHER_REPO == <<"r","/","r","r">>
LedgerBases == {REPO, OTHER_REPO}

\* The sources met: spellings of the first repository, one with a ref that
\* holds a '/', the second repository, and a local path.
LedgerSources ==
    { REPO, HTTPS \o REPO \o DOT_GIT, REPO \o <<"@","v","1">>,
      REPO \o <<"@","f","/","x">>, OTHER_REPO, SRC }

LedgerDeps ==
    {Simple(s) : s \in LedgerSources}
    \cup { Detailed(HTTPS \o REPO, Some(<<"v","1">>), Some(<<N_REVIEW>>), Some("Link"), None),
           Detailed(OTHER_REPO \o DOT_GIT, None, None, None,
                    Some(<<PathMapping(<<N_PROMPTS>>, "Command")>>)) }

LedgerOp(op, dep, source, before, ret) ==
    [op |-> op, dep |-> dep, source |-> source, before |-> before, ret |-> ret]

InitLedger ==
    /\ phase = "start"
    /\ \E a \in LedgerDeps, b \in LedgerDeps :
           manifest \in {Some(<<>>), Some(<<a>>), Some(<<a, b>>)}
    /\ ledger_op = None
    /\ home_dir = None
    /\ opts = None
    /\ install_calls = <<>>
    /\ cmd_result = "none"
    /\ DiskIdle /\ GitIdle /\ ScanIdle /\ PickIdle

\* Manifest::add_dependency
AddDependency ==
    /\ Len(Unwrap(manifest)) < MaxDeps
    /\ \E dep \in LedgerDeps :
           \E done \in {add_dependency(Unwrap(manifest), dep)} :
               /\ phase' = "add_dependency"
               /\ manifest' = Some(done.dependencies)
               /\ ledger_op' = Some(LedgerOp("add", Some(dep), dep.source,
                                             Unwrap(manifest), done.added))
               /\ UNCHANGED <<fs, home_dir, opts, install_calls, cmd_result,
                              gitVars, scanVars, pickVars>>

\* Manifest::remove_dependency
RemoveDependency ==
    \E source \in LedgerSources :
        \E done \in {remove_dependency(Unwrap(manifest), source)} :
            /\ phase' = "remove_dependency"
            /\ manifest' = Some(done.dependencies)
            /\ ledger_op' = Some(LedgerOp("remove", None, source,
                                          Unwrap(manifest), done.removed))
            /\ UNCHANGED <<fs, home_dir, opts, install_calls, cmd_result,
                           gitVars, scanVars, pickVars>>

NextLedger == AddDependency \/ RemoveDependency

SpecLedger == InitLedger /\ [][NextLedger]_vars

Added == ledger_op # None /\ Unwrap(ledger_op).op = "add"
Removed == ledger_op # None /\ Unwrap(ledger_op).op = "remove"
Op == Unwrap(ledger_op)
Ledger == Unwrap(manifest)

\* The entries of a list whose normalized source is that of source.
SameSource(dependencies, source) ==
    {i \in 1..Len(dependencies) :
        normalize_source(dependencies[i].source) = normalize_source(source)}

\* C14: add_dependency(d) on a list that holds an entry with d's normalized
\* source returns false and leaves the list as it was, however d differs
\* from that entry; otherwise it returns true and the list is the old one
\* with d appended.
C14_AddDependency ==
    Added =>
        IF SameSource(Op.before, Op.source) # {}
        THEN ~Op.ret /\ Ledger = Op.before
        ELSE Op.ret /\ Ledger = Append(Op.before, Unwrap(Op.dep))

\* A detailed dependency with a ref, a pick list and a strategy, spelled with
\* https://, was refused because the bare spelling was there.
C14_Witness ==
    /\ Added /\ ~Op.ret
    /\ Unwrap(Op.dep) = Detailed(HTTPS \o REPO, Some(<<"v","1">>), Some(<<N_REVIEW>>),
                                 Some("Link"), None)
    /\ Len(Ledger) = 2
    /\ Ledger[1] = Simple(OTHER_REPO)
    /\ Ledger[2] = Simple(REPO)

\* Two sources are spellings of one repository: they differ by an explicit
\* https://, a trailing .git, an @ref behind the last '/'.
SpelledAlike(a, b) ==
    \E repo \in LedgerBases :
        a \in SpellingsWith(repo, SimpleRefs) /\ b \in SpellingsWith(repo, SimpleRefs)

\* The entries of a list that do not have the normalized source of source.
OtherSource(dependencies, source) ==
    (1..Len(dependencies)) \ SameSource(dependencies, source)

SourceHeads ==
    { <<>>, HTTPS, HTTP, GIT_SCHEME, SSH,
      <<"s","s","h",":">>,
      <<"g","i","t","@","h",":">>,
      <<"g","i","t","@","h","/">>,
      <<"u","@","h",":">>,
      <<"g","i","t","h","u","b",".","c","o","m","/">>,
      <<"g","i","t","h","u","b",".","c","o","m">>,
      <<"x","g","i","t","h","u","b",".","c","o","m","/">>,
      <<"g","i","t","l","a","b",".","c","o","m","/">>,
      <<"b","i","t","b","u","c","k","e","t",".","o","r","g","/">>,
      <<"c","o","d","e","b","e","r","g",".","o","r","g","/">>,
      <<"s","r",".","h","t","/">>,
      <<"h",".","i","o","/">>,
      <<".","/">>, <<".",".","/">>, <<"/">>, <<"~","/">> }

SourcePaths == { <<"r">>, <<"o","/","r">>, <<"o","/","r",".","g","i","t">> }

SourceTails ==
    { <<>>, <<"@","v","2">>, <<"@">>, <<"@","f","/","x">>, <<"@","a","@","b">> }

SourceStrings ==
    {head \o path \o tail : head \in SourceHeads, path \in SourcePaths, tail \in SourceTails}

InitParse ==
    /\ phase = "start"
    /\ s1 \in SourceStrings
    /\ s2 = <<>> /\ n1 = None /\ n2 = None
    /\ parsed_remote = None /\ git_url = None
    /\ ResolveIdle
    /\ DiskIdle /\ ScanIdle /\ PickIdle /\ InstallIdle

\* parse_remote(s1) and is_git_url(s1)
ParseRemote ==
    /\ phase = "start"
    /\ phase' = "parsed"
    /\ parsed_remote' = Some(parse_remote(s1))
    /\ git_url' = Some(is_git_url(s1))
    /\ UNCHANGED <<s1, s2, n1, n2, resolveVars, fs, scanVars, pickVars, installVars>>

NextParse == ParseRemote

SpecParse == InitParse /\ [][NextParse]_vars

Parsed == phase = "parsed"

\* Where the last c of s is; 0 when there is none.
LastIndexOf(s, c) ==
    IF \E i \in 1..Len(s) : s[i] = c
    THEN CHOOSE i \in 1..Len(s) : s[i] = c /\ \A j \in (i + 1)..Len(s) : s[j] # c
    ELSE 0

\* The '@' that delimits a ref: the last one, when it comes after the last
\* '/' and something follows it.
RefDelimiter(s) ==
    IF /\ LastIndexOf(s, "/") > 0
       /\ LastIndexOf(s, "@") > LastIndexOf(s, "/")
       /\ LastIndexOf(s, "@") < Len(s)
    THEN LastIndexOf(s, "@")
    ELSE 0

\* What is before the ref delimiter, all of s when there is none.
BeforeRef(s) == IF RefDelimiter(s) = 0 THEN s ELSE SubSeq(s, 1, RefDelimiter(s) - 1)

Schemes == {HTTPS, HTTP, GIT_SCHEME, SSH}
HasScheme(s) == \E scheme \in Schemes : StartsWith(s, scheme)

ScpStyle(s, users) ==
    \E i \in 2..Len(s), j \in 1..Len(s) :
        /\ s[i] = "@" /\ s[j] = ":"
        /\ i + 1 < j /\ j < Len(s)
        /\ \A k \in 1..(j - 1) : s[k] \notin {"/", ":"} /\ (k # i => s[k] # "@")
        /\ \E user \in users : SubSeq(s, 1, i - 1) = user

AnyUser == {<<"g","i","t">>, <<"u">>}
GitUser == {<<"g","i","t">>}

\* The classification the spec gives: a remote has a scheme, or is
\* SCP-style, or begins with a hosting shorthand, once its @ref is removed.
IsRemote(s, users) ==
    \/ HasScheme(BeforeRef(s))
    \/ ScpStyle(BeforeRef(s), users)
    \/ \E host \in KNOWN_HOSTS : StartsWith(BeforeRef(s), host)

\* C17: is_git_url(s) is true exactly when s without its @ref has one of the
\* four schemes, or is user@host:path for any user, or begins with one of
\* the five hosting shorthands.
C17_IsGitUrl ==
    Parsed => (Unwrap(git_url) <=> IsRemote(s1, AnyUser))

\* The same with git as the only user of user@host:path.
IsGitUrlGitUser ==
    Parsed => (Unwrap(git_url) <=> IsRemote(s1, GitUser))

(***************************************************************************)
(* git.rs resolve_remote: the git subprocesses it runs, one step each,     *)
(* with the outcome of each subprocess left open.                          *)
(***************************************************************************)
W_VERSION == <<"-","-","v","e","r","s","i","o","n">>
W_CLONE == <<"c","l","o","n","e">>
W_FETCH == <<"f","e","t","c","h">>
W_ALL == <<"-","-","a","l","l">>
W_PRUNE == <<"-","-","p","r","u","n","e">>
W_CHECKOUT == <<"c","h","e","c","k","o","u","t">>
W_B == <<"-","B">>
W_SYMBOLIC_REF == <<"s","y","m","b","o","l","i","c","-","r","e","f">>
W_ORIGIN_HEAD ==
    <<"r","e","f","s","/","r","e","m","o","t","e","s","/","o","r","i","g","i","n","/","H","E","A","D">>
W_SHORT == <<"-","-","s","h","o","r","t">>
W_RESET == <<"r","e","s","e","t">>
W_HARD == <<"-","-","h","a","r","d">>
ORIGIN_SLASH == <<"o","r","i","g","i","n","/">>
MAIN == <<"m","a","i","n">>
MASTER == <<"m","a","s","t","e","r">>

\* u8::is_ascii_control: tab and newline stand for the control characters.
AsciiControl == {"\t", "\n"}
Whitespace == {" "} \cup AsciiControl

\* str::contains(&str)
contains_str(s, p) == \E i \in 1..(Len(s) - Len(p) + 1) : SubSeq(s, i, i + Len(p) - 1) = p

\* str::trim
RECURSIVE trim_start(_)
trim_start(s) ==
    IF s # <<>> /\ Head(s) \in Whitespace THEN trim_start(Tail(s)) ELSE s
RECURSIVE trim_end(_)
trim_end(s) ==
    IF s # <<>> /\ s[Len(s)] \in Whitespace THEN trim_end(SubSeq(s, 1, Len(s) - 1)) ELSE s
trim(s) == trim_end(trim_start(s))

\* full.strip_prefix("origin/").unwrap_or(&full)
strip_origin(full) ==
    IF StartsWith(full, ORIGIN_SLASH)
    THEN SubSeq(full, Len(ORIGIN_SLASH) + 1, Len(full))
    ELSE full

\* Mutant: only an empty ref and one that looks like a flag are refused.
validate_git_ref_flags_only(git_ref) ==
    /\ git_ref # <<>>
    /\ ~StartsWith(git_ref, <<"-">>)

\* validate_git_ref: TRUE for Ok.
validate_git_ref(git_ref) ==
    /\ git_ref # <<>>
    /\ ~StartsWith(git_ref, <<"-">>)
    /\ ~contains_str(git_ref, <<".", ".">>)
    /\ ~\E i \in 1..Len(git_ref) : git_ref[i] \in AsciiControl \/ git_ref[i] = " "

ParsedRemote(url, git_ref) == [url |-> url, git_ref |-> git_ref]

\* How a subprocess can end: Command::output() returns Err ("error"), or the
\* process exits with a non-zero ("failure") or a zero ("success") status.
Outcomes == {"error", "failure", "success"}

\* One subprocess: its arguments, how it ended, its stdout.
GitCommand(args, status, stdout) == [args |-> args, status |-> status, stdout |-> stdout]

MaxRefLen == 3
RefChars == {"m", "-", ".", "/", " ", "\t"}
RefStrings == StringsOver(RefChars, 0, MaxRefLen)

CLONE_URL == HTTPS \o REPO
CACHE_DIR == <<"c","a","c","h","e">>

\* What `git symbolic-ref refs/remotes/origin/HEAD --short` may print.
HeadOutputs ==
    { ORIGIN_SLASH \o MAIN \o <<"\n">>,
      ORIGIN_SLASH \o MASTER \o <<"\n">>,
      ORIGIN_SLASH \o <<"d","e","v">> \o <<"\n">>,
      <<"d","e","v">> }

InitResolve ==
    /\ phase = "start"
    /\ remote \in {Some(ParsedRemote(CLONE_URL, None))}
                  \cup {Some(ParsedRemote(CLONE_URL, Some(r))) : r \in RefStrings}
    /\ git_pc = "ensure_git_available"
    /\ git_commands = <<>>
    /\ branch = <<>>
    /\ resolve_result = "none"
    /\ git_checked = None
    /\ resolve_calls = <<>>
    /\ invocations = <<>> /\ cache = <<>> /\ resolving = <<>>
    /\ s1 = <<>> /\ s2 = <<>> /\ n1 = None /\ n2 = None
    /\ parsed_remote = None /\ git_url = None
    /\ DiskIdle /\ ScanIdle /\ PickIdle /\ InstallIdle

Ran_(cmd) == git_commands' = Append(git_commands, cmd)
Fails == git_pc' = "done" /\ resolve_result' = "err"
Returns == git_pc' = "done" /\ resolve_result' = "ok"
ResolveFrame == UNCHANGED <<phase, remote, resolve_calls, invocations, cache, resolving, s1, s2, n1, n2, parsed_remote, git_url, fs, scanVars, pickVars, installVars>>

\* A call of resolve_remote this process has finished: whether it ran the
\* probe, whether it started a clone, a fetch or a checkout, how it ended.
StartsWork(cmd) == cmd.args[1] \in {W_CLONE, W_FETCH, W_CHECKOUT}
Resolved ==
    [ probed |-> \E i \in 1..Len(git_commands) : git_commands[i].args = <<W_VERSION>>,
      checked |-> git_checked,
      worked |-> \E i \in 1..Len(git_commands) : StartsWork(git_commands[i]),
      result |-> resolve_result ]

\* Mutant: the probe runs in every call, whatever GIT_CHECKED holds.
EnsureGitAvailableEveryCall ==
    /\ git_pc = "ensure_git_available"
    /\ \E status \in Outcomes :
           /\ Ran_(GitCommand(<<W_VERSION>>, status, <<>>))
           /\ git_checked' = Some(status = "success")
           /\ IF status = "success"
              THEN git_pc' = "get_cache_dir" /\ UNCHANGED resolve_result
              ELSE Fails
    /\ UNCHANGED branch
    /\ ResolveFrame

\* ensure_git_available: GIT_CHECKED.get_or_init(`git --version`)
EnsureGitAvailable ==
    /\ git_pc = "ensure_git_available"
    /\ IF git_checked = None
       THEN \E status \in Outcomes :
                /\ Ran_(GitCommand(<<W_VERSION>>, status, <<>>))
                /\ git_checked' = Some(status = "success")
                /\ IF status = "success"
                   THEN git_pc' = "get_cache_dir" /\ UNCHANGED resolve_result
                   ELSE Fails
       ELSE /\ UNCHANGED <<git_commands, git_checked>>
            /\ IF Unwrap(git_checked)
               THEN git_pc' = "get_cache_dir" /\ UNCHANGED resolve_result
               ELSE Fails
    /\ UNCHANGED branch
    /\ ResolveFrame

\* get_cache_dir: dirs::cache_dir() may be None.
GetCacheDir ==
    /\ git_pc = "get_cache_dir"
    /\ \E known \in BOOLEAN :
           IF known THEN git_pc' = "update" /\ UNCHANGED resolve_result ELSE Fails
    /\ UNCHANGED <<git_commands, branch>>
    /\ UNCHANGED git_checked
    /\ ResolveFrame

\* What follows the clone or the fetch.
AfterUpdate(status) ==
    IF status # "success" THEN Fails
    ELSE /\ git_pc' = IF Unwrap(remote).git_ref # None
                      THEN "checkout_ref" ELSE "reset_to_default_branch"
         /\ UNCHANGED resolve_result

\* fetch_repo, when the cache directory exists
FetchRepo ==
    /\ git_pc = "update"
    /\ \E status \in Outcomes :
           /\ Ran_(GitCommand(<<W_FETCH, W_ALL, W_PRUNE>>, status, <<>>))
           /\ AfterUpdate(status)
    /\ UNCHANGED branch
    /\ UNCHANGED git_checked
    /\ ResolveFrame

\* clone_repo, when it does not
CloneRepo ==
    /\ git_pc = "update"
    /\ \E status \in Outcomes :
           /\ Ran_(GitCommand(<<W_CLONE, Unwrap(remote).url, CACHE_DIR>>, status, <<>>))
           /\ AfterUpdate(status)
    /\ UNCHANGED branch
    /\ UNCHANGED git_checked
    /\ ResolveFrame

\* checkout_ref: `validate_git_ref(git_ref)?`
ValidateGitRef ==
    /\ git_pc = "checkout_ref"
    /\ IF validate_git_ref(Unwrap(Unwrap(remote).git_ref))
       THEN git_pc' = "checkout" /\ UNCHANGED resolve_result
       ELSE Fails
    /\ UNCHANGED <<git_commands, branch>>
    /\ UNCHANGED git_checked
    /\ ResolveFrame

\* checkout_ref: `git checkout <ref>`
CheckoutDetached ==
    /\ git_pc = "checkout"
    /\ \E status \in Outcomes :
           /\ Ran_(GitCommand(<<W_CHECKOUT, Unwrap(Unwrap(remote).git_ref)>>, status, <<>>))
           /\ CASE status = "success" -> Returns
                [] status = "failure" ->
                       git_pc' = "checkout_tracking" /\ UNCHANGED resolve_result
                [] OTHER -> Fails
    /\ UNCHANGED branch
    /\ UNCHANGED git_checked
    /\ ResolveFrame

\* checkout_ref: `git checkout -B <ref> origin/<ref>`
CheckoutTracking ==
    /\ git_pc = "checkout_tracking"
    /\ \E status \in Outcomes :
           /\ Ran_(GitCommand(<<W_CHECKOUT, W_B, Unwrap(Unwrap(remote).git_ref),
                                ORIGIN_SLASH \o Unwrap(Unwrap(remote).git_ref)>>,
                              status, <<>>))
           /\ IF status = "success" THEN Returns ELSE Fails
    /\ UNCHANGED branch
    /\ UNCHANGED git_checked
    /\ ResolveFrame

\* reset_to_default_branch: `let mut branch = if output.status.success() ...`
default_branch(status, stdout) ==
    IF status = "success" THEN strip_origin(trim(stdout)) ELSE MAIN

\* reset_to_default_branch: `git symbolic-ref refs/remotes/origin/HEAD --short`
SymbolicRef ==
    /\ git_pc = "reset_to_default_branch"
    /\ \E out \in {GitCommand(<<>>, "error", <<>>), GitCommand(<<>>, "failure", <<>>)}
                  \cup {GitCommand(<<>>, "success", o) : o \in HeadOutputs} :
           /\ Ran_(GitCommand(<<W_SYMBOLIC_REF, W_ORIGIN_HEAD, W_SHORT>>,
                              out.status, out.stdout))
           /\ IF out.status = "error"
              THEN Fails /\ UNCHANGED branch
              ELSE /\ branch' = default_branch(out.status, out.stdout)
                   /\ git_pc' = "checkout_branch"
                   /\ UNCHANGED resolve_result
    /\ UNCHANGED git_checked
    /\ ResolveFrame

\* reset_to_default_branch: `git checkout <branch>`
CheckoutBranch ==
    /\ git_pc = "checkout_branch"
    /\ \E status \in Outcomes :
           /\ Ran_(GitCommand(<<W_CHECKOUT, branch>>, status, <<>>))
           /\ CASE status = "success" -> git_pc' = "reset" /\ UNCHANGED resolve_result
                [] status = "failure" ->
                       git_pc' = "checkout_master" /\ UNCHANGED resolve_result
                [] OTHER -> Fails
    /\ UNCHANGED branch
    /\ UNCHANGED git_checked
    /\ ResolveFrame

\* reset_to_default_branch: `git checkout master`
CheckoutMaster ==
    /\ git_pc = "checkout_master"
    /\ \E status \in Outcomes :
           /\ Ran_(GitCommand(<<W_CHECKOUT, MASTER>>, status, <<>>))
           /\ IF status = "success"
              THEN git_pc' = "reset" /\ branch' = MASTER /\ UNCHANGED resolve_result
              ELSE Fails /\ UNCHANGED branch
    /\ UNCHANGED git_checked
    /\ ResolveFrame

\* Mutant: a reset that exits non-zero is an error of the resolution.
ResetHardFatal ==
    /\ git_pc = "reset"
    /\ \E status \in Outcomes :
           /\ Ran_(GitCommand(<<W_RESET, W_HARD, ORIGIN_SLASH \o branch>>, status, <<>>))
           /\ IF status = "success" THEN Returns ELSE Fails
    /\ UNCHANGED branch
    /\ UNCHANGED git_checked
    /\ ResolveFrame

\* reset_to_default_branch: `git reset --hard origin/<branch>`; a non-zero
\* exit is only a warning.
ResetHard ==
    /\ git_pc = "reset"
    /\ \E status \in Outcomes :
           /\ Ran_(GitCommand(<<W_RESET, W_HARD, ORIGIN_SLASH \o branch>>, status, <<>>))
           /\ IF status = "error" THEN Fails ELSE Returns
    /\ UNCHANGED branch
    /\ UNCHANGED git_checked
    /\ ResolveFrame

NextResolve ==
    \/ EnsureGitAvailable \/ GetCacheDir \/ FetchRepo \/ CloneRepo
    \/ ValidateGitRef \/ CheckoutDetached \/ CheckoutTracking
    \/ SymbolicRef \/ CheckoutBranch \/ CheckoutMaster \/ ResetHard

SpecResolve == InitResolve /\ [][NextResolve]_vars

(***************************************************************************)
(* Several resolve_remote calls in one process, as install_from_manifest   *)
(* makes them: one per dependency with a remote source.                    *)
(***************************************************************************)
MaxResolveCalls == 3
ProcessRemotes ==
    { ParsedRemote(CLONE_URL, None),
      ParsedRemote(CLONE_URL, Some(<<"m">>)),
      ParsedRemote(CLONE_URL, Some(<<"-">>)) }

InitProcess ==
    /\ phase = "start"
    /\ remote \in {Some(r) : r \in ProcessRemotes}
    /\ git_pc = "ensure_git_available"
    /\ git_commands = <<>>
    /\ branch = <<>>
    /\ resolve_result = "none"
    /\ git_checked = None
    /\ resolve_calls = <<>>
    /\ invocations = <<>> /\ cache = <<>> /\ resolving = <<>>
    /\ s1 = <<>> /\ s2 = <<>> /\ n1 = None /\ n2 = None
    /\ parsed_remote = None /\ git_url = None
    /\ DiskIdle /\ ScanIdle /\ PickIdle /\ InstallIdle

\* The next call of resolve_remote in the same process.
ResolveRemote ==
    /\ git_pc = "done"
    /\ Len(resolve_calls) + 1 < MaxResolveCalls
    /\ resolve_calls' = Append(resolve_calls, Resolved)
    /\ \E r \in ProcessRemotes : remote' = Some(r)
    /\ git_pc' = "ensure_git_available"
    /\ git_commands' = <<>>
    /\ branch' = <<>>
    /\ resolve_result' = "none"
    /\ UNCHANGED <<git_checked, invocations, cache, resolving, phase, s1, s2, n1, n2, parsed_remote, git_url, fs, scanVars, pickVars, installVars>>

NextProcess == NextResolve \/ ResolveRemote

SpecProcess == InitProcess /\ [][NextProcess]_vars


HasRef == remote # None /\ Unwrap(remote).git_ref # None
RequestedRef == Unwrap(Unwrap(remote).git_ref)
ResolveDone == git_pc = "done"

\* The ref is empty, starts with `-`, contains `..`, or contains a space or
\* a control character.
Defective(r) ==
    \/ r = <<>>
    \/ r[1] = "-"
    \/ \E i \in 1..(Len(r) - 1) : r[i] = "." /\ r[i + 1] = "."
    \/ \E i \in 1..Len(r) : r[i] \in {" ", "\t", "\n"}

\* The subprocess was given the ref, alone or as origin/<ref>.
CarriesRef(cmd, r) ==
    \E k \in 1..Len(cmd.args) : cmd.args[k] = r \/ cmd.args[k] = ORIGIN_SLASH \o r

\* The clone or the fetch succeeded.
Updated ==
    \E i \in 1..Len(git_commands) :
        /\ git_commands[i].args[1] \in {W_FETCH, W_CLONE}
        /\ git_commands[i].status = "success"

\* C19: resolving a remote whose ref is empty, starts with `-`, contains `..`
\* or contains a space or control character fails, and no git subprocess is
\* ever given that ref; a ref with none of these defects passes validation,
\* so that once the clone or fetch has succeeded `git checkout <ref>` is run.
C19_DefectiveRefRejected ==
    HasRef =>
        /\ Defective(RequestedRef) =>
               /\ \A i \in 1..Len(git_commands) : ~CarriesRef(git_commands[i], RequestedRef)
               /\ git_pc \notin {"checkout", "checkout_tracking"}
               /\ ResolveDone => resolve_result = "err"
        /\ (~Defective(RequestedRef) /\ Updated) =>
               \/ git_pc \in {"checkout_ref", "checkout"}
               \/ \E i \in 1..Len(git_commands) :
                      git_commands[i].args = <<W_CHECKOUT, RequestedRef>>

C19_Witness ==
    /\ HasRef
    /\ RequestedRef = <<"m", ".", ".">>
    /\ Updated
    /\ ResolveDone
    /\ resolve_result = "err"
    /\ Len(git_commands) = 2

NoRef == remote # None /\ Unwrap(remote).git_ref = None

\* Every subprocess so far could be started.
AllSpawned == \A i \in 1..Len(git_commands) : git_commands[i].status # "error"

\* The i-th subprocess is `git checkout b`.
AttemptAt(i, b) == git_commands[i].args = <<W_CHECKOUT, b>>
Attempted(b) == \E i \in 1..Len(git_commands) : AttemptAt(i, b)
CheckedOut(b) ==
    \E i \in 1..Len(git_commands) : AttemptAt(i, b) /\ git_commands[i].status = "success"

\* The symbolic-ref lookup has run.
LookedUp ==
    \E i \in 1..Len(git_commands) : git_commands[i].args[1] = W_SYMBOLIC_REF

\* The branch the lookup named: None when the lookup failed.
HeadBranch ==
    LET i == CHOOSE i \in 1..Len(git_commands) : git_commands[i].args[1] = W_SYMBOLIC_REF
    IN  IF git_commands[i].status = "success"
        THEN Some(strip_origin(trim(git_commands[i].stdout)))
        ELSE None

\* The branches to try, in order.
Candidates == HeadBranch \o <<MAIN, MASTER>>

\* The checkout attempts of the default branch are over.
BranchSettled == git_pc \in {"reset", "done"}

MainBeforeMaster ==
    \E i \in 1..Len(git_commands) :
        /\ AttemptAt(i, MAIN)
        /\ \A j \in 1..Len(git_commands) : AttemptAt(j, MASTER) => i < j

FailsOnlyIfNoCandidate ==
    (ResolveDone /\ resolve_result = "err") =>
        \A k \in 1..Len(Candidates) :
            Attempted(Candidates[k]) /\ ~CheckedOut(Candidates[k])

ResetsToCheckedOut ==
    \A i \in 1..Len(git_commands) :
        git_commands[i].args[1] = W_RESET =>
            \E j \in 1..(i - 1) :
                /\ git_commands[j].args[1] = W_CHECKOUT
                /\ git_commands[j].status = "success"
                /\ git_commands[i].args =
                       <<W_RESET, W_HARD, ORIGIN_SLASH \o git_commands[j].args[2]>>

\* C20: with no ref, the branch comes from the remote's symbolic HEAD, then
\* main, then master: whenever the symbolic-HEAD branch is unavailable or its
\* checkout fails, main is attempted before master; resolution fails only if
\* no candidate could be checked out; the hard reset targets origin/<the
\* branch that was checked out>.
C20_DefaultBranchFallback ==
    (NoRef /\ LookedUp /\ AllSpawned /\ BranchSettled) =>
        /\ (HeadBranch = None \/ ~CheckedOut(Unwrap(HeadBranch))) => MainBeforeMaster
        /\ FailsOnlyIfNoCandidate
        /\ ResetsToCheckedOut

\* What the code does: main is tried only when the lookup fails; a symbolic-
\* HEAD branch whose checkout fails is followed by master alone.
DefaultBranchFallbackAsLookedUp ==
    (NoRef /\ LookedUp /\ AllSpawned /\ BranchSettled) =>
        /\ HeadBranch = None => MainBeforeMaster
        /\ (HeadBranch # None /\ ~CheckedOut(Unwrap(HeadBranch))) =>
               Attempted(Unwrap(HeadBranch)) /\ Attempted(MASTER)
        /\ (ResolveDone /\ resolve_result = "err") =>
               Attempted(MASTER) /\ ~CheckedOut(MASTER)
        /\ ResetsToCheckedOut

\* The i-th subprocess ran and exited with a non-zero status.
FailedAt(i) == git_commands[i].status = "failure"
IsReset(i) == git_commands[i].args[1] = W_RESET

\* The failure of the i-th subprocess ended the resolution with an error.
FatalAt(i) == i = Len(git_commands) /\ ResolveDone /\ resolve_result = "err"

\* The resolution went on, or ended well, after the i-th subprocess.
SurvivedAt(i) == i < Len(git_commands) \/ (git_pc # "done") \/ resolve_result = "ok"

FailedResetIsWarning ==
    \A i \in 1..Len(git_commands) : (IsReset(i) /\ FailedAt(i)) => resolve_result = "ok"

\* A resolution of the default branch that returns a GitSource has checked a
\* branch out.
CheckoutMustSucceed ==
    (NoRef /\ ResolveDone /\ resolve_result = "ok") =>
        \E i \in 1..Len(git_commands) :
            git_commands[i].args[1] = W_CHECKOUT /\ git_commands[i].status = "success"

\* C21 as stated: a failed `reset --hard` never fails the resolution, an
\* exhausted branch checkout always does, and the failed reset is the only
\* failure of a git subprocess that is not fatal.
C21_OnlyResetIsNotFatal ==
    /\ FailedResetIsWarning
    /\ CheckoutMustSucceed
    /\ \A i \in 1..Len(git_commands) : (FailedAt(i) /\ ~IsReset(i)) => FatalAt(i)

\* The i-th subprocess is one whose failure the code answers with another
\* attempt: the symbolic-ref lookup, the first checkout of the default
\* branch, the detached checkout of a requested ref.
HasFallback(i) ==
    \/ git_commands[i].args[1] = W_SYMBOLIC_REF
    \/ /\ git_commands[i].args[1] = W_CHECKOUT
       /\ Len(git_commands[i].args) = 2
       /\ \/ HasRef
          \/ git_commands[i - 1].args[1] = W_SYMBOLIC_REF

\* C21, amended: a failed `reset --hard` never fails the resolution, and a
\* default-branch resolution that succeeds has checked a branch out; a failed
\* subprocess that has a fallback is not fatal either, and the failure of
\* every other subprocess is.
C21_ResetAndFallbacksNotFatal ==
    /\ FailedResetIsWarning
    /\ CheckoutMustSucceed
    /\ \A i \in 1..Len(git_commands) :
           FailedAt(i) =>
               IF IsReset(i) \/ HasFallback(i) THEN SurvivedAt(i) ELSE FatalAt(i)

C21_Witness ==
    /\ NoRef
    /\ ResolveDone
    /\ resolve_result = "ok"
    /\ IsReset(Len(git_commands))
    /\ FailedAt(Len(git_commands))
    /\ AllSpawned

\* The calls of resolve_remote in this process, the one under way included.
AllCalls == resolve_calls \o <<Resolved>>

ProbedAtMostOnce ==
    \A i, j \in 1..Len(AllCalls) : (AllCalls[i].probed /\ AllCalls[j].probed) => i = j

\* Once a call has probed, every later call ends with the result of that probe
\* and without a probe of its own.
ProbeResultShared ==
    \A i, j \in 1..Len(AllCalls) :
        (i < j /\ AllCalls[i].checked # None) =>
            AllCalls[j].checked = AllCalls[i].checked /\ ~AllCalls[j].probed

\* A call whose probe result is failure starts no clone, fetch or checkout,
\* and fails.
FailedProbeStartsNothing ==
    /\ \A i \in 1..Len(resolve_calls) :
           resolve_calls[i].checked = Some(FALSE) =>
               ~resolve_calls[i].worked /\ resolve_calls[i].result = "err"
    /\ git_checked = Some(FALSE) =>
           /\ \A i \in 1..Len(git_commands) : ~StartsWork(git_commands[i])
           /\ git_pc \in {"ensure_git_available", "done"}
           /\ ResolveDone => resolve_result = "err"

ProbeResultKept == git_checked # None => git_checked' = git_checked

\* C22: across the resolve_remote calls of one process `git --version` runs at
\* most once, every call observes the result of that one probe (a failed
\* probe keeps failing and is not retried), and a call whose probe result is
\* failure starts no clone, fetch or checkout.
C22_ProbeOncePerProcess ==
    /\ [](ProbedAtMostOnce /\ ProbeResultShared /\ FailedProbeStartsNothing)
    /\ [][ProbeResultKept]_vars

C22_Witness ==
    /\ Len(resolve_calls) = 2
    /\ resolve_calls[1].probed
    /\ resolve_calls[1].checked = Some(FALSE)
    /\ ~resolve_calls[2].probed
    /\ git_commands = <<>>
    /\ ResolveDone
    /\ resolve_result = "err"

(***************************************************************************)
(* install_from_manifest: the order of the dependencies.                   *)
(***************************************************************************)
ManifestRan == phase = "install_from_manifest" /\ manifest # None

\* The disk the command started on.
Disk0 == IF install_calls = <<>> THEN fs ELSE install_calls[1].before

\* The source of dependency i is missing or holds no artifact.
Unresolved(i) == ~resolve_local_source(Disk0, "ascending", Deps[i].source, Deps[i].paths).ok

\* Dependency i fails: in its resolution or scan, or in its placement.
FailingDeps == {i \in 1..Len(Deps) : Unresolved(i) \/ \E c \in CalledFor(i) : ~c.ok}

CallDeps == [k \in 1..Len(install_calls) |-> Unwrap(install_calls[k].dep)]

\* a is b with some elements left out.
RECURSIVE IsSubSeq(_, _)
IsSubSeq(a, b) ==
    IF a = <<>> THEN TRUE
    ELSE IF b = <<>> THEN FALSE
    ELSE IF Head(a) = Head(b) THEN IsSubSeq(Tail(a), Tail(b))
    ELSE IsSubSeq(a, Tail(b))

\* C23: install_from_manifest takes the dependencies in manifest order, each
\* placement starting on the disk the one before has left with its
\* placements; when dependency i fails (its source cannot be resolved, holds
\* no artifact, or a placement fails) nothing is done for a later dependency,
\* and what the dependencies before i placed is still on disk.
C23_ManifestOrder ==
    ManifestRan =>
        /\ IsSubSeq(CallDeps, Deps)
        /\ \A k \in 1..(Len(install_calls) - 1) :
               /\ install_calls[k].ok
               /\ \A r \in ResultsOf(install_calls[k]) :
                      exists(install_calls[k + 1].before, TargetPath(r))
        /\ cmd_result = "ok" <=> FailingDeps = {}
        /\ \A i \in FailingDeps : \A j \in (i + 1)..Len(Deps) : CalledFor(j) = {}
        /\ \A c \in Calls : c.ok => \A r \in ResultsOf(c) : exists(fs, TargetPath(r))

C23_Witness ==
    /\ ManifestRan
    /\ Len(Deps) = 3
    /\ Deps[2] = Simple(EMPTY_SRC)
    /\ cmd_result = "err"
    /\ Len(install_calls) = 1
    /\ install_calls[1].dep = Some(Deps[1])
    /\ install_calls[1].ok
    /\ \E r \in ResultsOf(install_calls[1]) : exists(fs, TargetPath(r))

\* Result k of call i is the last placement of the command at its target.
LastAtTarget(i, k) ==
    /\ \A j \in (i + 1)..Len(install_calls) :
           \A r \in ResultsOf(install_calls[j]) :
               r.target # install_calls[i].results[k].target
    /\ \A l \in (k + 1)..Len(install_calls[i].results) :
           install_calls[i].results[l].target # install_calls[i].results[k].target

\* A dependency before the i-th placed an artifact at the same target.
Contended(i, k) ==
    \E j \in 1..(i - 1) :
        \E r \in ResultsOf(install_calls[j]) : r.target = install_calls[i].results[k].target

\* Every file of the artifact at src is at the target t with its content.
HoldsFilesOf(f, t, src) ==
    \A rel \in FilesBelow(f, src) :
        /\ is_file(f, t \o rel)
        /\ ContentAt(f, t \o rel) = ContentAt(f, src \o rel)

\* The target t holds the artifact at src and nothing else.
HoldsArtifact(f, t, src) ==
    /\ exists(f, t)
    /\ HoldsFilesOf(f, t, src)
    /\ FilesBelow(f, Unwrap(canonicalize(f, t))) = FilesBelow(f, src)

\* Two dependencies placed an artifact at one target and no placement failed.
NoConflictReported ==
    (\E i \in 1..Len(install_calls) :
         \E k \in 1..Len(install_calls[i].results) : Contended(i, k))
        => (FailingDeps = {} => cmd_result = "ok")

\* C24: when two dependencies of a manifest place an artifact at the same
\* target path the install succeeds, and the target then holds the artifact
\* of the dependency processed last, a file or a skill directory.
C24_LastWriteWins ==
    ManifestRan =>
        /\ NoConflictReported
        /\ cmd_result = "ok" =>
               \A i \in 1..Len(install_calls) :
                   \A k \in 1..Len(install_calls[i].results) :
                       (Contended(i, k) /\ LastAtTarget(i, k)) =>
                           HoldsArtifact(fs, TargetPath(install_calls[i].results[k]),
                               SourcePath(install_calls[i], install_calls[i].results[k]))

\* What holds: each file of the last artifact is at the target with its
\* content; a skill directory copied over another keeps the files that only
\* the earlier one has.
LastWriteWinsPerFile ==
    ManifestRan =>
        /\ NoConflictReported
        /\ cmd_result = "ok" =>
               \A i \in 1..Len(install_calls) :
                   \A k \in 1..Len(install_calls[i].results) :
                       (Contended(i, k) /\ LastAtTarget(i, k)) =>
                           HoldsFilesOf(fs, TargetPath(install_calls[i].results[k]),
                               SourcePath(install_calls[i], install_calls[i].results[k]))

(***************************************************************************)
(* Two processes that each run `install <url>@<ref>` for the same url:     *)
(* resolve_remote_source step by step, on the cache directory they share.  *)
(* The content of a working tree is named by the ref it holds.             *)
(***************************************************************************)
\* hash_url: FNV-1a over the bytes of the url, as 16 hex digits; the model
\* keeps the url under the name of the function and so has no collisions.
hash_url(url) == <<"fnv1a", url>>

\* get_cache_dir: <cache root>/agentfiles/<hash_url(url)>
get_cache_dir(url) == << <<"a","g","e","n","t","f","i","l","e","s">>, hash_url(url) >>

Processes == {1, 2}
RACE_REFS == [p \in Processes |-> <<"v", IF p = 1 THEN "1" ELSE "2">>]
RACE_SOURCES == [p \in Processes |-> CLONE_URL \o <<"@">> \o RACE_REFS[p]]

Invocation(source) ==
    [source |-> source, pc |-> "start", remote |-> None, cache_dir |-> None,
     existed |-> FALSE, scanned |-> None, placed |-> None, result |-> "none"]

InitRace ==
    /\ phase = "start"
    /\ invocations = [p \in Processes |-> Invocation(RACE_SOURCES[p])]
    /\ cache \in {<<>>, Put(<<>>, get_cache_dir(CLONE_URL), MAIN)}
    /\ remote = None /\ git_pc = "idle" /\ git_commands = <<>>
    /\ branch = <<>> /\ resolve_result = "none"
    /\ git_checked = None /\ resolve_calls = <<>> /\ resolving = None
    /\ s1 = <<>> /\ s2 = <<>> /\ n1 = None /\ n2 = None
    /\ parsed_remote = None /\ git_url = None
    /\ DiskIdle /\ ScanIdle /\ PickIdle /\ InstallIdle

RaceFrame ==
    UNCHANGED <<phase, remote, git_pc, git_commands, branch, resolve_result, git_checked, resolve_calls, resolving, s1, s2, n1, n2, parsed_remote, git_url, fs, scanVars, pickVars, installVars>>

At_(p, pc) == invocations[p].pc = pc
Becomes(p, inv) == invocations' = [invocations EXCEPT ![p] = inv]
Dir(p) == Unwrap(invocations[p].cache_dir)

\* resolve_remote_source: parse_remote; resolve_remote up to
\* `cache_dir.exists()`
ParseAndLocate(p) ==
    /\ At_(p, "start")
    /\ \E parsed \in {parse_remote(invocations[p].source)} :
           Becomes(p, [invocations[p] EXCEPT
                          !.remote = Some(parsed),
                          !.cache_dir = Some(get_cache_dir(parsed.url)),
                          !.existed = get_cache_dir(parsed.url) \in DOMAIN cache,
                          !.pc = "update"])
    /\ UNCHANGED cache
    /\ RaceFrame

\* resolve_remote: fetch_repo
Fetch(p) ==
    /\ At_(p, "update")
    /\ invocations[p].existed
    /\ Becomes(p, [invocations[p] EXCEPT !.pc = "checkout_ref"])
    /\ UNCHANGED cache
    /\ RaceFrame

\* resolve_remote: clone_repo; git refuses a directory that is there by now.
Clone(p) ==
    /\ At_(p, "update")
    /\ ~invocations[p].existed
    /\ IF Dir(p) \in DOMAIN cache
       THEN /\ Becomes(p, [invocations[p] EXCEPT !.pc = "done", !.result = "err"])
            /\ UNCHANGED cache
       ELSE /\ Becomes(p, [invocations[p] EXCEPT !.pc = "checkout_ref"])
            /\ cache' = Put(cache, Dir(p), MAIN)
    /\ RaceFrame

\* resolve_remote: checkout_ref, in the working tree of the cache directory
CheckoutRef(p) ==
    /\ At_(p, "checkout_ref")
    /\ \E success \in BOOLEAN :
           IF success
           THEN /\ Becomes(p, [invocations[p] EXCEPT !.pc = "scan"])
                /\ cache' = [cache EXCEPT ![Dir(p)] = Unwrap(Unwrap(invocations[p].remote).git_ref)]
           ELSE /\ Becomes(p, [invocations[p] EXCEPT !.pc = "done", !.result = "err"])
                /\ UNCHANGED cache
    /\ RaceFrame

\* resolve_remote_source: scan_agent_files(&local_path, ..)
ScanCache(p) ==
    /\ At_(p, "scan")
    /\ Becomes(p, [invocations[p] EXCEPT !.scanned = Some(cache[Dir(p)]), !.pc = "install"])
    /\ UNCHANGED cache
    /\ RaceFrame

\* install_from_source: installer::install(&files, .., &source_dir, ..)
PlaceFromCache(p) ==
    /\ At_(p, "install")
    /\ Becomes(p, [invocations[p] EXCEPT
                      !.placed = Some(cache[Dir(p)]), !.pc = "done", !.result = "ok"])
    /\ UNCHANGED cache
    /\ RaceFrame

NextRace ==
    \E p \in Processes :
        \/ ParseAndLocate(p) \/ Fetch(p) \/ Clone(p)
        \/ CheckoutRef(p) \/ ScanCache(p) \/ PlaceFromCache(p)

SpecRace == InitRace /\ [][NextRace]_vars

RequestedBy(p) == Some(RACE_REFS[p])

\* C25: two invocations for one url with different refs are given the same
\* cache directory, and each scans and places whatever ref the working tree
\* of that directory holds at that moment, its own or the other's.
C25_SharedCacheRace ==
    /\ \A p, q \in Processes :
           (invocations[p].cache_dir # None /\ invocations[q].cache_dir # None) =>
               /\ invocations[p].cache_dir = invocations[q].cache_dir
               /\ Unwrap(invocations[p].remote).git_ref = RequestedBy(p)
               /\ RequestedBy(p) # RequestedBy(q) \/ p = q
    /\ \A p \in Processes :
           /\ At_(p, "scan") => Dir(p) \in DOMAIN cache
           /\ (At_(p, "done") /\ invocations[p].result = "ok") =>
                  \E q \in Processes : invocations[p].placed = RequestedBy(q)

\* The first invocation checked out v1, the second then checked out v2, and
\* the first scanned and placed v2.
C25_Witness ==
    /\ \A p \in Processes : At_(p, "done") /\ invocations[p].result = "ok"
    /\ RequestedBy(1) = Some(<<"v", "1">>)
    /\ invocations[1].scanned = Some(<<"v", "2">>)
    /\ invocations[1].placed = Some(<<"v", "2">>)

(***************************************************************************)
(* The ledger of a manifest that starts with no dependency.                *)
(***************************************************************************)
InitEmptyLedger ==
    /\ phase = "start"
    /\ manifest = Some(<<>>)
    /\ ledger_op = None
    /\ home_dir = None
    /\ opts = None
    /\ install_calls = <<>>
    /\ cmd_result = "none"
    /\ DiskIdle /\ GitIdle /\ ScanIdle /\ PickIdle

SpecEmptyLedger == InitEmptyLedger /\ [][NextLedger]_vars

\* C26: starting from an empty ledger, after any sequence of add_dependency
\* and remove_dependency calls no two entries have the same normalized
\* source.
C26_NoDuplicateSources ==
    \A i, j \in 1..Len(Ledger) :
        normalize_source(Ledger[i].source) = normalize_source(Ledger[j].source) => i = j

\* An add of another spelling of an entry's source was refused on a ledger
\* of two entries.
C26_Witness ==
    /\ Added /\ ~Op.ret
    /\ Len(Ledger) = 2
    /\ Op.source # Ledger[1].source /\ Op.source # Ledger[2].source
    /\ SameSource(Ledger, Op.source) # {}

\* Everything below source_root is on disk f as it was before the first call.
SourceAsBefore(f) ==
    \A q \in DOMAIN install_calls[1].before :
        IsPrefix(SOURCE_ROOT, q) => (q \in DOMAIN f /\ f[q] = install_calls[1].before[q])

\* C27: install never changes the source tree: after any sequence of install
\* calls, Copy or Link, every file and directory below source_root is there
\* with the content it had, also when a target is a link to the source that
\* an earlier Link install has made.
C27_SourceUnchanged == Ran => SourceAsBefore(fs)

\* No target of call c led into the source when the call began.
TargetsOutsideSource(c) ==
    /\ \A j \in 1..Len(c.files) : c.files[j].path # <<>>
    /\ \A k \in 1..Len(SupportingPairs(c)) :
           \A t \in {TargetOf(c, SupportingPairs(c)[k])} :
               \A n \in 1..Len(t) : ~is_symlink(c.before, SubSeq(t, 1, n))

\* What holds: calls that only link, and calls that only copy to targets
\* with no link on their way, leave the source as it was.
SourceUnchangedOffLinks ==
    (Ran /\ \A c \in Calls : AllOf(c, "Link") \/ (AllOf(c, "Copy") /\ TargetsOutsideSource(c)))
        => SourceAsBefore(fs)

(***************************************************************************)
(* A remote source saved by `install <source>` and resolved again by       *)
(* `install`: save_dependency, then install_dependency up to its call of   *)
(* git::resolve_remote.                                                    *)
(***************************************************************************)
RemoteSources == {s \in SourceStrings : is_git_url(s)}

\* agentfiles.json before: missing, empty, or written by hand.
SavedManifests ==
    { None, Some(<<>>),
      Some(<<Detailed(HTTPS \o OTHER_REPO, Some(<<"v","1">>), None, None, None)>>),
      Some(<<Simple(HTTPS \o OTHER_REPO \o <<"@","v","1">>)>>) }

InitSaved ==
    /\ phase = "start"
    /\ manifest \in SavedManifests
    /\ ledger_op = None
    /\ home_dir = None
    /\ opts = None
    /\ install_calls = <<>>
    /\ cmd_result = "none"
    /\ DiskIdle /\ GitIdle /\ ScanIdle /\ PickIdle

\* install_from_source, its last step: save_dependency(source, pick, ..)
SaveDependency ==
    /\ phase = "start"
    /\ \E source \in RemoteSources, pick \in PickOptions :
           /\ opts' = Some(InstallOptions(Some(source), "Project", AllProviders, None, pick, FALSE))
           /\ manifest' = save_dependency(manifest, source, pick)
    /\ phase' = "saved"
    /\ cmd_result' = "ok"
    /\ UNCHANGED <<fs, home_dir, install_calls, ledger_op, gitVars, scanVars, pickVars>>

\* install_dependency for one dependency of the manifest: resolve_source,
\* resolve_remote_source up to `git::resolve_remote(&remote)`
ResolveDependency ==
    /\ phase \in {"start", "saved"}
    /\ manifest # None
    /\ \E i \in 1..Len(Unwrap(manifest)) :
           /\ is_git_url(Unwrap(manifest)[i].source)
           /\ resolving' = Some(Unwrap(manifest)[i])
           /\ remote' = Some(parse_remote(Unwrap(manifest)[i].source))
    /\ phase' = "resolve_remote_source"
    /\ UNCHANGED <<fs, s1, s2, n1, n2, parsed_remote, git_url, git_pc, git_commands, branch, resolve_result, git_checked, resolve_calls, invocations, cache, scanVars, pickVars, installVars>>

NextSaved == SaveDependency \/ ResolveDependency

SpecSaved == InitSaved /\ [][NextSaved]_vars

Resolving == phase = "resolve_remote_source"

\* The ref written after the last '@' behind the last '/' of the source the
\* command line gave, when there is one.
InstalledRef ==
    LET source == Unwrap(Unwrap(opts).source)
    IN  IF RefDelimiter(source) = 0 THEN None
        ELSE Some(SubSeq(source, RefDelimiter(source) + 1, Len(source)))

\* The dependency being resolved is the one the command line's source was
\* saved as.
ResolvingSaved ==
    /\ opts # None
    /\ Unwrap(resolving).source = parse_remote(Unwrap(Unwrap(opts).source)).url
    /\ Unwrap(resolving).git_ref = InstalledRef

\* C28: the ref given at install time is the ref of every later manifest
\* install: a dependency saved from `install <url>@<ref>` is resolved by
\* checking out <ref>, and for every detailed dependency with a `ref` field
\* the ref handed to the resolver is that field.
C28_SavedRefResolved ==
    Resolving =>
        /\ (ResolvingSaved /\ InstalledRef # None) => Unwrap(remote).git_ref = InstalledRef
        /\ Unwrap(resolving).git_ref # None =>
               Unwrap(remote).git_ref = Unwrap(resolving).git_ref

\* What holds: only a ref written into the source string reaches the
\* resolver; the `ref` field of a dependency never does.
OnlyInlineRefResolved ==
    Resolving =>
        LET source == Unwrap(resolving).source
        IN  Unwrap(remote).git_ref =
                IF RefDelimiter(source) = 0 THEN None
                ELSE Some(SubSeq(source, RefDelimiter(source) + 1, Len(source)))

\* `install r/r@v` saved {source: https://r/r, ref: v}; the later `install`
\* hands the resolver https://r/r with no ref.
SavedRefDropped ==
    /\ Resolving
    /\ ResolvingSaved
    /\ InstalledRef # None
    /\ Unwrap(resolving).detailed
    /\ Unwrap(remote).git_ref = None

(***************************************************************************)
(* Where install places the artifacts of one scan.                         *)
(***************************************************************************)
\* install's inner loop body up to the placement: get_target_dir, then
\* resolve_target_path; None when the provider is passed over.
PlacementTarget(m, provider, scope) ==
    LET target_dir == get_target_dir(provider, scope, m.kind, PROJECT_ROOT, Some(HOME))
    IN  IF target_dir = None THEN None
        ELSE resolve_target_path(m.path, Unwrap(target_dir))

\* The (artifact, provider) pairs install places for the scanned list.
PlacedPairs(scope) ==
    { pair \in (1..Len(Found)) \X {AllProviders[k] : k \in 1..Len(AllProviders)} :
          PlacementTarget(Found[pair[1]], pair[2], scope) # None }

\* C29: of the artifact list one scan returns, whatever the providers and
\* the scope, the (artifact, provider) pairs that install places have
\* pairwise distinct target paths: no placement of the call overwrites
\* another.
C29_DistinctTargets ==
    ScanOk =>
        \A scope \in FileScopes :
            \A a \in PlacedPairs(scope), b \in PlacedPairs(scope) :
                a # b => PlacementTarget(Found[a[1]], a[2], scope)
                             # PlacementTarget(Found[b[1]], b[2], scope)

\* The directories scanned held two artifacts of one kind and file name, of
\* which the scan returned one, next to another artifact.
C29_Witness ==
    /\ ScanOk
    /\ Len(Found) >= 2
    /\ \E i \in 1..Len(scanned), j \in 1..Len(scanned) :
          /\ i # j
          /\ scanned[i].kind = scanned[j].kind
          /\ scanned[i].path # scanned[j].path
          /\ file_name(scanned[i].path) = file_name(scanned[j].path)
    /\ Cardinality(PlacedPairs("Project")) > Len(Found)

(***************************************************************************)
(* When `install <source>` writes agentfiles.json.                         *)
(***************************************************************************)
Loaded == IF manifest = None THEN <<>> ELSE Unwrap(manifest)

\* The ledger holds the source under some spelling.
InLedger(source) ==
    \E i \in 1..Len(Loaded) : normalize_source(Loaded[i].source) = normalize_source(source)

====
